---- MODULE Spec2Model ----
(***************************************************************************)
(* Model of hermannm.dev/wrap: the error values built by the wrap          *)
(* constructors (wrap.go) and the renderer behind their Error() methods    *)
(* (internal/errors.go: BuildWrappedErrorString, BuildWrappedErrorsString, *)
(* errorBuilder, unwrapError, unwrapErrors).                                *)
(*                                                                         *)
(* Strings are sequences of one-character strings, so that len(s), s[i],   *)
(* s[a:b] and strings.HasSuffix are computed as the code computes them.    *)
(* Error values are records {kind, message, wrapped}; `wrapped` is the     *)
(* sequence of causes (one entry for a single-cause wrapper).              *)
(***************************************************************************)
EXTENDS Integers, Sequences, FiniteSets, TLC

VARIABLES stack, pc, target, result, arrays, texts, procs, unparsed, parsed, taken,
          given

vars == <<stack, pc, target, result, arrays, texts, procs, unparsed, parsed, taken, given>>

\* the variables of the caller that builds one tree and calls Error() on it
treeVars == <<stack, pc, target, result>>
\* the backing arrays of the caller's []error slices, and the texts returned
heapVars == <<arrays, texts>>
\* the goroutines that are inside Error()
callVars == <<procs>>
\* the argument list and the return value of ParseAttrs, and how many items
\* each round of its loop took off the list
attrVars == <<unparsed, parsed, taken>>
\* the context.Context each of the caller's values was constructed with
ctxVars == <<given>>

(***************************************************************************)
(* Bounds of the model.                                                    *)
(***************************************************************************)
\* most error values (nil included) alive in the caller's variables at once
MaxNodes == 5
\* most causes handed to one Errors call
MaxCauses == 2
\* most error values in a foreign-wrapper scenario (leaf + fmt wrappers + root)
MaxChain == 4

(***************************************************************************)
(* Characters and the message texts the callers use.                       *)
(***************************************************************************)
NL == "\n"
SP == " "
COLON == ":"
DASH == "-"
\* stands for the goroutine panicking (nil dereference) while the text is built
PanicMark == "<panic>"

\* messages given to errors.New, wrap.Error and wrap.Errors
\* one single-line text, and one with an embedded and a trailing line break
Messages == { <<"a">>, <<"a", NL, "b", NL>> }

\* prefixes and separators of fmt.Errorf(prefix + sep + "%w", cause)
Prefixes == { <<"p">>, <<"p", COLON, SP, "q">>, <<"p", NL, "q">> }
Separators == { <<COLON, SP>>, <<COLON, NL>>, <<SP>> }

(***************************************************************************)
(* Error values.                                                           *)
(***************************************************************************)
\* a nil error interface value
Nil == [kind |-> "nil", message |-> <<>>, wrapped |-> <<>>]

\* errors.New(message): exposes Error() only
errorsNew(message) == [kind |-> "errorString", message |-> message, wrapped |-> <<>>]

\* wrap.Error(wrapped, message)
Error(wrapped, message) ==
    [kind |-> "wrappedError", message |-> message, wrapped |-> <<wrapped>>]

\* wrap.Errors(wrapped, message)
Errors(wrapped, message) ==
    [kind |-> "wrappedErrors", message |-> message, wrapped |-> wrapped]

\* the value fmt.Errorf returns for one %w verb: Error() is the stored text,
\* Unwrap() the cause; no WrappingMessage()
fmtWrapError(msg, err) == [kind |-> "fmtWrapError", message |-> msg, wrapped |-> <<err>>]

\* the single-cause and the multi-cause wrapper types of the packages wrap and
\* ctxwrap
SingleWrappers ==
    { "wrappedError", "wrappedErrorWithAttrs",
      "ctxwrap.wrappedError", "ctxwrap.wrappedErrorWithAttrs" }
MultiWrappers ==
    { "wrappedErrors", "wrappedErrorsWithAttrs",
      "ctxwrap.wrappedErrors", "ctxwrap.wrappedErrorsWithAttrs" }

\* the dynamic type implements `Unwrap() error`
IsWrappingError(err) == err.kind \in SingleWrappers \cup {"fmtWrapError"}
\* the dynamic type implements `Unwrap() []error`
IsWrappingErrors(err) == err.kind \in MultiWrappers \cup {"joinError"}

\* variant: the types with log attributes or a context have no
\* WrappingMessage()
HasWrappingMessage_PlainOnly(err) == err.kind \in {"wrappedError", "wrappedErrors"}

\* the dynamic type implements `WrappingMessage() string`
HasWrappingMessage(err) == err.kind \in SingleWrappers \cup MultiWrappers

\* variant: the causes of a multi-cause wrapper handed out last first
Unwrap_Reversed(err) ==
    IF IsWrappingError(err) THEN err.wrapped[1]
    ELSE [i \in DOMAIN err.wrapped |-> err.wrapped[Len(err.wrapped) + 1 - i]]

\* wrappedError.Unwrap / wrappedErrors.Unwrap / fmt's wrapError.Unwrap
Unwrap(err) == IF IsWrappingError(err) THEN err.wrapped[1] ELSE err.wrapped
\* wrappedError.WrappingMessage / wrappedErrors.WrappingMessage
WrappingMessage(err) == err.message

(***************************************************************************)
(* String helpers.                                                         *)
(***************************************************************************)
Panicked(s) == \E i \in DOMAIN s : s[i] = PanicMark

\* strings.HasSuffix(s, suffix)
HasSuffix(s, suffix) ==
    /\ Len(s) >= Len(suffix)
    /\ SubSeq(s, Len(s) - Len(suffix) + 1, Len(s)) = suffix

(***************************************************************************)
(* errorBuilder: the text written so far, and a log of the                 *)
(* writeErrorListItem invocations (arguments, position in the text, and    *)
(* the invocation that made the call; 0 for the Build... entry points).    *)
(***************************************************************************)
NewBuilder == [out |-> <<>>, calls |-> <<>>]

Write(builder, s) == [builder EXCEPT !.out = @ \o s]

\* variant: the loop starts at i := 0
writeIndent_FromZero(indent) == [i \in 1..(2 * indent) |-> SP]

\* errorBuilder.writeIndent: the text it writes
writeIndent(indent) == [i \in 1..(2 * (indent - 1)) |-> SP]

\* errorBuilder.writeListItemPrefix: the text it writes
writeListItemPrefix(indent) == <<NL>> \o writeIndent(indent) \o <<DASH, SP>>

RECURSIVE writeErrorMessageLoop(_, _, _, _)
\* the loop of errorBuilder.writeErrorMessage from index i on (1-based),
\* followed by the final write of message[lastWriteIndex:]
writeErrorMessageLoop(message, indent, i, lastWriteIndex) ==
    IF i > Len(message)
    THEN SubSeq(message, lastWriteIndex, Len(message))
    ELSE IF message[i] = NL
         THEN SubSeq(message, lastWriteIndex, i) \o writeIndent(indent)
              \o writeErrorMessageLoop(message, indent, i + 1, i + 1)
         ELSE writeErrorMessageLoop(message, indent, i + 1, lastWriteIndex)

\* variant: continuation lines always behind one two-space unit
messageIndent_LevelOne(indent) == 1 + 1

\* variant: continuation lines at the level of the bullet
messageIndent_Bullet(indent) == indent

\* the indent level of the continuation lines of a label written at `indent`
messageIndent(indent) == indent + 1

\* variant: the loop stops before the last byte (i < len(message)-1), so a
\* trailing line break gets no indent behind it
writeErrorMessage_SkipLast(message, indent) ==
    IF Len(message) = 0 THEN <<>>
    ELSE writeErrorMessageLoop(SubSeq(message, 1, Len(message) - 1),
                               messageIndent(indent), 1, 1)
         \o <<message[Len(message)]>>

\* errorBuilder.writeErrorMessage: the text it writes
writeErrorMessage(message, indent) ==
    writeErrorMessageLoop(message, messageIndent(indent), 1, 1)

\* unwrapError: index where the wrapping message would end (0-based)
wrappingMessageEndIndex(errMessage, unwrappedMessage) ==
    Len(errMessage) - Len(unwrappedMessage) - 2

\* variant: only ": " counts as a separator
hasSeparatorAt_SpaceOnly(errMessage, unwrappedMessage, endIndex) ==
    /\ endIndex > 0
    /\ HasSuffix(errMessage, unwrappedMessage)
    /\ errMessage[endIndex + 1] = COLON
    /\ errMessage[endIndex + 2] = SP

\* variant: the text is not compared with the cause's text
hasSeparatorAt_NoSuffixCheck(errMessage, unwrappedMessage, endIndex) ==
    /\ endIndex > 0
    /\ errMessage[endIndex + 1] = COLON
    /\ errMessage[endIndex + 2] \in {SP, NL}

\* variant: any character may follow the colon
hasSeparatorAt_AnyAfterColon(errMessage, unwrappedMessage, endIndex) ==
    /\ endIndex > 0
    /\ HasSuffix(errMessage, unwrappedMessage)
    /\ errMessage[endIndex + 1] = COLON

\* variant: an empty wrapping message is accepted
hasSeparatorAt_FromZero(errMessage, unwrappedMessage, endIndex) ==
    /\ endIndex >= 0
    /\ HasSuffix(errMessage, unwrappedMessage)
    /\ errMessage[endIndex + 1] = COLON
    /\ errMessage[endIndex + 2] \in {SP, NL}

\* unwrapError: the separator test on errMessage[wrappingMessageEndIndex] and
\* the character after it (Go indices are 0-based)
hasSeparatorAt(errMessage, unwrappedMessage, endIndex) ==
    /\ endIndex > 0
    /\ HasSuffix(errMessage, unwrappedMessage)
    /\ errMessage[endIndex + 1] = COLON
    /\ errMessage[endIndex + 2] \in {SP, NL}

\* variant: the index is not compared with 0
indexesRead_AnyEndIndex(errMessage, unwrappedMessage, endIndex) ==
    IF HasSuffix(errMessage, unwrappedMessage)
    THEN {endIndex} \cup (IF endIndex + 1 \in DOMAIN errMessage
                             /\ errMessage[endIndex + 1] = COLON
                          THEN {endIndex + 1} ELSE {})
    ELSE {}

\* unwrapError: the indexes (0-based) at which it reads errMessage, the
\* conditions evaluated left to right: errMessage[wrappingMessageEndIndex] after
\* the index test and strings.HasSuffix, the character after it after the
\* colon test
indexesRead(errMessage, unwrappedMessage, endIndex) ==
    IF endIndex > 0 /\ HasSuffix(errMessage, unwrappedMessage)
    THEN {endIndex} \cup (IF errMessage[endIndex + 1] = COLON
                          THEN {endIndex + 1} ELSE {})
    ELSE {}

\* variant: a wrapped error in a list is two levels deeper
singleIndent_TwoLevels(indent, partOfList) == IF partOfList THEN indent + 2 ELSE indent

\* variant: a wrapped error is always one level deeper
singleIndent_Always(indent, partOfList) == indent + 1

\* writeErrorListItem, case wrappingError: indent of the wrapped error
singleIndent(indent, partOfList) == IF partOfList THEN indent + 1 ELSE indent

\* variant: partOfList is not looked at
listIndent_CountOnly(indent, partOfList, count) ==
    IF count > 1 THEN indent + 1 ELSE indent

\* variant: the number of wrapped errors is not looked at
listIndent_SiblingsOnly(indent, partOfList, count) ==
    IF partOfList THEN indent + 1 ELSE indent

\* variant: wrapped errors are always one level deeper
listIndent_Always(indent, partOfList, count) == indent + 1

\* writeErrorListItem, case wrappingErrors: indent of the wrapped errors
listIndent(indent, partOfList, count) ==
    IF partOfList \/ count > 1 THEN indent + 1 ELSE indent

\* writeErrorList: the partOfList argument it passes for every item
listPartOfList(count) == count > 1

\* variant: the list starts one level in
rootIndent_Deeper == 1 + 1

\* indent at which the Build... entry points start the list
rootIndent == 1

RECURSIVE ErrorString(_)
RECURSIVE unwrapError(_)
RECURSIVE writeErrorListItem(_, _, _, _, _)
RECURSIVE writeErrorList(_, _, _, _, _)

unwrapError(err) ==
    LET unwrapped == Unwrap(err) IN
    IF HasWrappingMessage(err)
    THEN [unwrapped |-> unwrapped, errMessage |-> WrappingMessage(err),
          errMessageIsWrappingMessage |-> TRUE]
    ELSE
    LET errMessage == ErrorString(err) IN
    IF unwrapped = Nil
    THEN [unwrapped |-> Nil, errMessage |-> errMessage,
          errMessageIsWrappingMessage |-> FALSE]
    ELSE
    LET unwrappedMessage == ErrorString(unwrapped)
        endIndex == wrappingMessageEndIndex(errMessage, unwrappedMessage)
    IN
    IF Panicked(unwrappedMessage)
    THEN [unwrapped |-> unwrapped, errMessage |-> <<PanicMark>>,
          errMessageIsWrappingMessage |-> FALSE]
    ELSE IF hasSeparatorAt(errMessage, unwrappedMessage, endIndex)
    THEN [unwrapped |-> unwrapped, errMessage |-> SubSeq(errMessage, 1, endIndex),
          errMessageIsWrappingMessage |-> TRUE]
    ELSE [unwrapped |-> unwrapped, errMessage |-> errMessage,
          errMessageIsWrappingMessage |-> FALSE]

\* variant: only the first cause is handed on
unwrapErrors_FirstOnly(err) ==
    [unwrapped |-> IF Len(Unwrap(err)) = 0 THEN <<>> ELSE <<Unwrap(err)[1]>>,
     errMessage |-> IF HasWrappingMessage(err) THEN WrappingMessage(err)
                    ELSE ErrorString(err),
     errMessageIsWrappingMessage |-> HasWrappingMessage(err)]

\* variant: the causes of every multi-cause wrapper are listed
unwrapErrors_AlwaysWrapping(err) ==
    [unwrapped |-> Unwrap(err),
     errMessage |-> IF HasWrappingMessage(err) THEN WrappingMessage(err)
                    ELSE ErrorString(err),
     errMessageIsWrappingMessage |-> TRUE]

\* unwrapErrors
unwrapErrors(err) ==
    IF HasWrappingMessage(err)
    THEN [unwrapped |-> Unwrap(err), errMessage |-> WrappingMessage(err),
          errMessageIsWrappingMessage |-> TRUE]
    ELSE [unwrapped |-> Unwrap(err), errMessage |-> ErrorString(err),
          errMessageIsWrappingMessage |-> FALSE]

\* variant: the label of an error without Unwrap is its text up to the first
\* ": "
plainMessage_UpToSeparator(err) ==
    LET message == ErrorString(err)
        cuts == { i \in 1..(Len(message) - 1) : message[i] = COLON /\ message[i + 1] = SP }
    IN IF cuts = {} THEN message
       ELSE SubSeq(message, 1, (CHOOSE i \in cuts : \A j \in cuts : i <= j) - 1)

\* writeErrorListItem, default case: the label of an error without Unwrap
plainMessage(err) == ErrorString(err)

writeErrorListItem(builder, wrappedErr, indent, partOfList, caller) ==
    LET entry == [err |-> wrappedErr, indent |-> indent, partOfList |-> partOfList,
                  at |-> Len(builder.out), caller |-> caller]
        self == Len(builder.calls) + 1
        b1 == [out |-> builder.out \o writeListItemPrefix(indent),
               calls |-> Append(builder.calls, entry)]
    IN
    IF IsWrappingError(wrappedErr)
    THEN LET u == unwrapError(wrappedErr)
             b2 == Write(b1, writeErrorMessage(u.errMessage, indent))
         IN IF u.errMessageIsWrappingMessage
            THEN writeErrorListItem(b2, u.unwrapped,
                                    singleIndent(indent, partOfList), FALSE, self)
            ELSE b2
    ELSE IF IsWrappingErrors(wrappedErr)
    THEN LET u == unwrapErrors(wrappedErr)
             b2 == Write(b1, writeErrorMessage(u.errMessage, indent))
         IN IF u.errMessageIsWrappingMessage
            THEN writeErrorList(b2, u.unwrapped,
                                listIndent(indent, partOfList, Len(u.unwrapped)),
                                self, 1)
            ELSE b2
    ELSE IF wrappedErr = Nil
    THEN Write(b1, <<PanicMark>>)
    ELSE Write(b1, writeErrorMessage(plainMessage(wrappedErr), indent))

\* variant: a list without errors is written as one item without a text
writeErrorList_EmptyItem(builder, wrappedErrs, indent, caller, k) ==
    IF Len(wrappedErrs) = 0
    THEN Write(builder, writeListItemPrefix(indent))
    ELSE IF k > Len(wrappedErrs)
    THEN builder
    ELSE writeErrorList(
             writeErrorListItem(builder, wrappedErrs[k], indent,
                                listPartOfList(Len(wrappedErrs)), caller),
             wrappedErrs, indent, caller, k + 1)

\* errorBuilder.writeErrorList, from the k-th element of wrappedErrs on
writeErrorList(builder, wrappedErrs, indent, caller, k) ==
    IF k > Len(wrappedErrs)
    THEN builder
    ELSE writeErrorList(
             writeErrorListItem(builder, wrappedErrs[k], indent,
                                listPartOfList(Len(wrappedErrs)), caller),
             wrappedErrs, indent, caller, k + 1)

\* BuildWrappedErrorString: the builder when it returns
BuildWrappedErrorString(err) ==
    writeErrorListItem(Write(NewBuilder, WrappingMessage(err)), Unwrap(err),
                       rootIndent, FALSE, 0)

\* BuildWrappedErrorsString: the builder when it returns
BuildWrappedErrorsString(err) ==
    writeErrorList(Write(NewBuilder, WrappingMessage(err)), Unwrap(err),
                   rootIndent, 0, 1)

\* the builder of err.Error() for the values of this library
Build(err) ==
    IF err.kind \in SingleWrappers THEN BuildWrappedErrorString(err)
    ELSE BuildWrappedErrorsString(err)

\* err.Error() for every kind of value; a text holding PanicMark stands for a
\* call that panicked
ErrorString(err) ==
    IF err = Nil THEN <<PanicMark>>
    ELSE IF HasWrappingMessage(err) THEN Build(err).out
    ELSE err.message

(***************************************************************************)
(* The caller: a sequence of error variables (`stack`) built up with the   *)
(* constructors, and one call of Error() on the newest value.              *)
(***************************************************************************)
RECURSIVE Size(_)
RECURSIVE SizeAll(_, _)
\* number of error values (nil included) in a tree
Size(err) == 1 + SizeAll(err.wrapped, 1)
SizeAll(errs, k) == IF k > Len(errs) THEN 0 ELSE Size(errs[k]) + SizeAll(errs, k + 1)

Top == stack[Len(stack)]
Pop(n) == SubSeq(stack, 1, Len(stack) - n)
TopN(n) == SubSeq(stack, Len(stack) - n + 1, Len(stack))

NoResult == [panicked |-> FALSE, text |-> <<>>, calls |-> <<>>]

Init ==
    /\ stack = <<>>
    /\ pc = "build"
    /\ target = Nil
    /\ result = NoResult
    /\ arrays = <<>>
    /\ texts = <<>>
    /\ procs = <<>>
    /\ unparsed = <<>>
    /\ parsed = <<>>
    /\ taken = <<>>
    /\ given = <<>>

\* err := errors.New(message)
DoNew(bound) ==
    /\ pc = "build"
    /\ SizeAll(stack, 1) < bound
    /\ \E message \in Messages : stack' = Append(stack, errorsNew(message))
    /\ UNCHANGED <<pc, target, result>>

\* var err error   (a nil error value)
DoNil(bound) ==
    /\ pc = "build"
    /\ SizeAll(stack, 1) < bound
    /\ stack' = Append(stack, Nil)
    /\ UNCHANGED <<pc, target, result>>

\* err = wrap.Error(err, message)
DoError(bound) ==
    /\ pc = "build"
    /\ Len(stack) >= 1
    /\ SizeAll(stack, 1) < bound
    /\ \E message \in Messages : stack' = Append(Pop(1), Error(Top, message))
    /\ UNCHANGED <<pc, target, result>>

\* err = wrap.Errors([]error{...}, message)
DoErrors(bound) ==
    /\ pc = "build"
    /\ SizeAll(stack, 1) < bound
    /\ \E n \in 0..MaxCauses, message \in Messages :
          /\ n <= Len(stack)
          /\ stack' = Append(Pop(n), Errors(TopN(n), message))
    /\ UNCHANGED <<pc, target, result>>

\* err = fmt.Errorf(prefix + sep + "%w", err): the text is formatted when the
\* value is built, from the cause's Error()
DoFmtErrorf(bound) ==
    /\ pc = "build"
    /\ Len(stack) >= 1
    /\ SizeAll(stack, 1) < bound
    /\ Top # Nil
    /\ ~Panicked(ErrorString(Top))
    /\ \E prefix \in Prefixes, sep \in Separators :
          stack' = Append(Pop(1), fmtWrapError(prefix \o sep \o ErrorString(Top), Top))
    /\ UNCHANGED <<pc, target, result>>

\* text := err.Error()   on a value built by wrap.Error or wrap.Errors
DoCallError ==
    /\ pc = "build"
    /\ Len(stack) >= 1
    /\ HasWrappingMessage(Top)
    /\ LET b == Build(Top) IN
          result' = IF Panicked(b.out)
                    THEN [panicked |-> TRUE, text |-> <<>>, calls |-> b.calls]
                    ELSE [panicked |-> FALSE, text |-> b.out, calls |-> b.calls]
    /\ target' = Top
    /\ pc' = "called"
    /\ UNCHANGED stack

(***************************************************************************)
(* Spec: trees of the library's own wrappers over errors.New leaves and    *)
(* nil values.                                                             *)
(***************************************************************************)
NewLeaf == DoNew(MaxNodes) /\ UNCHANGED <<heapVars, callVars, attrVars, ctxVars>>
NewNil == DoNil(MaxNodes) /\ UNCHANGED <<heapVars, callVars, attrVars, ctxVars>>
WrapError == DoError(MaxNodes) /\ UNCHANGED <<heapVars, callVars, attrVars, ctxVars>>
WrapErrors == DoErrors(MaxNodes) /\ UNCHANGED <<heapVars, callVars, attrVars, ctxVars>>
CallError == DoCallError /\ UNCHANGED <<heapVars, callVars, attrVars, ctxVars>>

Next == NewLeaf \/ NewNil \/ WrapError \/ WrapErrors \/ CallError

Spec == Init /\ [][Next]_vars

(***************************************************************************)
(* SpecFmt: chains of fmt.Errorf and wrap.Error wrappers over one          *)
(* errors.New leaf.                                                        *)
(***************************************************************************)
FmtNewLeaf == Len(stack) = 0 /\ DoNew(MaxChain) /\ UNCHANGED <<heapVars, callVars, attrVars, ctxVars>>
FmtErrorf == DoFmtErrorf(MaxChain) /\ UNCHANGED <<heapVars, callVars, attrVars, ctxVars>>
FmtWrapError == DoError(MaxChain) /\ UNCHANGED <<heapVars, callVars, attrVars, ctxVars>>
FmtCallError == DoCallError /\ UNCHANGED <<heapVars, callVars, attrVars, ctxVars>>

NextFmt == FmtNewLeaf \/ FmtErrorf \/ FmtWrapError \/ FmtCallError

SpecFmt == Init /\ [][NextFmt]_vars

(***************************************************************************)
(* SpecShared: a caller that keeps its values and its []error slices, so   *)
(* that one cause sits under several wrappers and a slice handed to        *)
(* wrap.Errors stays in the caller's hands. A slice is a header            *)
(* {array, len} onto a backing array; wrappedErrors stores the header it   *)
(* is given and Unwrap() returns the stored header. `texts` holds the text *)
(* the caller's latest Error() call returned.                              *)
(***************************************************************************)
\* most variables (error values and []error slices) the caller holds
MaxVars == 4

\* the message the caller gives to its wrappers
WrapperMessages == { <<"m">> }

\* errs := []error{...} seen as a value: the header onto backing array k
sliceOf(k) == [array |-> k, len |-> Len(arrays[k])]

RECURSIVE Refs(_)
\* the backing arrays a value holds a header onto
Refs(err) ==
    IF err.kind = "wrappedErrors" THEN {err.wrapped.array}
    ELSE UNION {Refs(err.wrapped[i]) : i \in DOMAIN err.wrapped}

RECURSIVE LoadFrom(_, _)
\* what a value is when it is read from the backing arrays `heap`: every
\* slice header stands for the elements its backing array holds
LoadFrom(heap, err) ==
    IF err.kind = "wrappedErrors"
    THEN [err EXCEPT !.wrapped =
             [i \in 1..err.wrapped.len |-> LoadFrom(heap, heap[err.wrapped.array][i])]]
    ELSE [err EXCEPT !.wrapped =
             [i \in DOMAIN err.wrapped |-> LoadFrom(heap, err.wrapped[i])]]

\* what a value is when it is read at this moment
Load(err) == LoadFrom(arrays, err)

\* e := errors.New(message)
SharedNewLeaf ==
    /\ Len(stack) + Len(arrays) < MaxVars
    /\ \E message \in Messages : stack' = Append(stack, errorsNew(message))
    /\ UNCHANGED <<pc, target, result, heapVars, callVars, attrVars, ctxVars>>

\* errs := []error{e1, ..., en}   over values the caller holds
SharedMakeSlice ==
    /\ Len(stack) + Len(arrays) < MaxVars
    /\ \E n \in 1..MaxCauses : \E from \in [1..n -> DOMAIN stack] :
          arrays' = Append(arrays, [i \in 1..n |-> stack[from[i]]])
    /\ UNCHANGED <<treeVars, texts, callVars, attrVars, ctxVars>>

\* w := wrap.Error(e, message)   e stays in the caller's hands
SharedError ==
    /\ Len(stack) + Len(arrays) < MaxVars
    /\ \E j \in DOMAIN stack, message \in WrapperMessages :
          stack' = Append(stack, Error(stack[j], message))
    /\ UNCHANGED <<pc, target, result, heapVars, callVars, attrVars, ctxVars>>

\* w := wrap.Errors(errs, message)   errs stays in the caller's hands
SharedErrors ==
    /\ Len(stack) + Len(arrays) < MaxVars
    /\ \E k \in DOMAIN arrays, message \in WrapperMessages :
          stack' = Append(stack, Errors(sliceOf(k), message))
    /\ UNCHANGED <<pc, target, result, heapVars, callVars, attrVars, ctxVars>>

\* errs[i] = e   the caller writes through the slice it passed to wrap.Errors
SharedStore ==
    /\ \E k \in DOMAIN arrays : \E i \in DOMAIN arrays[k], j \in DOMAIN stack :
          /\ \A r \in Refs(stack[j]) : r < k
          /\ arrays' = [arrays EXCEPT ![k][i] = stack[j]]
    /\ UNCHANGED <<treeVars, texts, callVars, attrVars, ctxVars>>

\* u := w.Unwrap(); u[i] = e   the caller writes through the slice Unwrap()
\* returned, which is the header w holds
SharedUnwrapStore ==
    /\ \E w \in DOMAIN stack :
          /\ stack[w].kind = "wrappedErrors"
          /\ LET u == Unwrap(stack[w]) IN
                \E i \in 1..u.len, j \in DOMAIN stack :
                   /\ \A r \in Refs(stack[j]) : r < u.array
                   /\ arrays' = [arrays EXCEPT ![u.array][i] = stack[j]]
    /\ UNCHANGED <<treeVars, texts, callVars, attrVars, ctxVars>>

\* text := w.Error()   on a value built by wrap.Error or wrap.Errors: the
\* builder is a local of the call, the value and the slices are only read
SharedCallError_Reordering ==
    /\ \E w \in DOMAIN stack :
          /\ HasWrappingMessage(stack[w])
          /\ texts' = <<[of |-> w, text |-> ErrorString(Load(stack[w]))]>>
          /\ arrays' = [k \in DOMAIN arrays |->
                           IF k \in Refs(stack[w])
                           THEN [i \in DOMAIN arrays[k] |-> arrays[k][Len(arrays[k]) + 1 - i]]
                           ELSE arrays[k]]
    /\ UNCHANGED <<treeVars, callVars, attrVars, ctxVars>>

SharedCallError ==
    /\ \E w \in DOMAIN stack :
          /\ HasWrappingMessage(stack[w])
          /\ texts' = <<[of |-> w, text |-> ErrorString(Load(stack[w]))]>>
    /\ UNCHANGED <<treeVars, arrays, callVars, attrVars, ctxVars>>

NextShared ==
    \/ SharedNewLeaf \/ SharedMakeSlice \/ SharedError \/ SharedErrors
    \/ SharedStore \/ SharedUnwrapStore \/ SharedCallError

SpecShared == Init /\ [][NextShared]_vars

(***************************************************************************)
(* SpecCalls: several goroutines inside Error() at once, on one value or   *)
(* on values that share a cause. A call is run one writeErrorListItem at a *)
(* time: `todo` holds the calls of writeErrorListItem still to be made, in *)
(* the order the recursion makes them; `mixed` records that the call made  *)
(* a step while another call was between its first and its last write.     *)
(***************************************************************************)
\* most goroutines calling Error() at once
MaxCalls == 2

\* the values the goroutines call Error() on: wrappers around one cause
SharedCauses ==
    { Error(errorsNew(<<"a">>), <<"c">>),
      Errors(<<errorsNew(<<"a">>), errorsNew(<<"a", NL, "b", NL>>)>>, <<"c">>) }
WrappersOf(cause) ==
    { cause,
      Error(cause, <<"m">>),
      Errors(<<cause>>, <<"m">>),
      Errors(<<errorsNew(<<"a">>), cause>>, <<"m", NL, "n">>) }

\* variant: one builder for all calls (a package-level variable)
builderOf_Shared(p) == 1

\* the builder a call writes to: `var builder errorBuilder`, a local of the
\* call
builderOf(p) == p

\* the first calls BuildWrappedErrorString / BuildWrappedErrorsString make
firstItems(err) ==
    IF IsWrappingError(err)
    THEN <<[err |-> Unwrap(err), indent |-> rootIndent, partOfList |-> FALSE]>>
    ELSE [k \in 1..Len(Unwrap(err)) |->
             [err |-> Unwrap(err)[k], indent |-> rootIndent,
              partOfList |-> listPartOfList(Len(Unwrap(err)))]]

\* one call of writeErrorListItem up to its recursive calls: the text it
\* writes and the calls it goes on to make
itemStep(item) ==
    LET prefix == writeListItemPrefix(item.indent) IN
    IF IsWrappingError(item.err)
    THEN LET u == unwrapError(item.err) IN
         [written |-> prefix \o writeErrorMessage(u.errMessage, item.indent),
          next |-> IF u.errMessageIsWrappingMessage
                   THEN <<[err |-> u.unwrapped,
                           indent |-> singleIndent(item.indent, item.partOfList),
                           partOfList |-> FALSE]>>
                   ELSE <<>>]
    ELSE IF IsWrappingErrors(item.err)
    THEN LET u == unwrapErrors(item.err) IN
         [written |-> prefix \o writeErrorMessage(u.errMessage, item.indent),
          next |-> IF u.errMessageIsWrappingMessage
                   THEN [k \in 1..Len(u.unwrapped) |->
                            [err |-> u.unwrapped[k],
                             indent |-> listIndent(item.indent, item.partOfList,
                                                   Len(u.unwrapped)),
                             partOfList |-> listPartOfList(Len(u.unwrapped))]]
                   ELSE <<>>]
    ELSE [written |-> prefix \o writeErrorMessage(ErrorString(item.err), item.indent),
          next |-> <<>>]

\* some other goroutine is between its first and its last write
OthersWriting(p) == \E q \in DOMAIN procs : q # p /\ procs[q].at = "items"

\* the goroutines, each about to call Error() on its value
InitCalls ==
    /\ \E n \in 2..MaxCalls : \E cause \in SharedCauses :
          procs \in [1..n -> [err : WrappersOf(cause), at : {"start"},
                              out : {<<>>}, todo : {<<>>}, text : {<<>>},
                              mixed : {FALSE}]]
    /\ stack = <<>>
    /\ pc = "build"
    /\ target = Nil
    /\ result = NoResult
    /\ arrays = <<>>
    /\ texts = <<>>
    /\ unparsed = <<>>
    /\ parsed = <<>>
    /\ taken = <<>>
    /\ given = <<>>

\* goroutine p enters Error(): a new builder, the wrapping message written
CallEnter(p) ==
    /\ procs[p].at = "start"
    /\ procs' = [procs EXCEPT ![p].at = "items",
                              ![p].todo = firstItems(procs[p].err),
                              ![p].mixed = @ \/ OthersWriting(p),
                              ![builderOf(p)].out = WrappingMessage(procs[p].err)]
    /\ UNCHANGED <<treeVars, heapVars, attrVars, ctxVars>>

\* goroutine p makes its next call of writeErrorListItem
CallItem(p) ==
    /\ procs[p].at = "items"
    /\ procs[p].todo # <<>>
    /\ LET step == itemStep(Head(procs[p].todo)) IN
          procs' = [procs EXCEPT ![p].todo = step.next \o Tail(@),
                                 ![p].mixed = @ \/ OthersWriting(p),
                                 ![builderOf(p)].out = @ \o step.written]
    /\ UNCHANGED <<treeVars, heapVars, attrVars, ctxVars>>

\* goroutine p returns builder.String()
CallReturn(p) ==
    /\ procs[p].at = "items"
    /\ procs[p].todo = <<>>
    /\ procs' = [procs EXCEPT ![p].at = "returned",
                              ![p].text = procs[builderOf(p)].out]
    /\ UNCHANGED <<treeVars, heapVars, attrVars, ctxVars>>

EnterError == \E p \in DOMAIN procs : CallEnter(p)
WriteItem == \E p \in DOMAIN procs : CallItem(p)
ReturnText == \E p \in DOMAIN procs : CallReturn(p)

NextCalls == EnterError \/ WriteItem \/ ReturnText

SpecCalls == InitCalls /\ [][NextCalls]_vars

(***************************************************************************)
(* ParseAttrs (internal/attrs.go) and SpecAttrs: one call of it on an      *)
(* argument list. An item of the list is a value of type `any`, kept with  *)
(* its dynamic type; a slog.Attr is a record {key, value}.                 *)
(***************************************************************************)
\* most items in the argument list
MaxItems == 3

badKey == "!BADKEY"

\* slog.Attr{Key: key, Value: value}
slogAttr(key, value) == [key |-> key, value |-> value]

\* values of type `any`: a slog.Attr, a string, a value of another type
anyAttr(attr) == [type |-> "slog.Attr", attr |-> attr]
anyString(s) == [type |-> "string", text |-> s]
anyInt(n) == [type |-> "int", number |-> n]

\* slog.Any(key, item) and slog.String(key, s): the value keeps what it was
\* made from
slogAny(key, item) == slogAttr(key, item)
slogString(key, s) == slogAttr(key, anyString(s))

\* the items the callers pass
Items ==
    { anyAttr(slogAttr("k", anyInt(1))), anyString("k"), anyString("j"), anyInt(2) }

\* variant: after a key-value pair the list goes on from the value
parseNext_FromValue(list) ==
    LET item == list[1] IN
    IF item.type = "slog.Attr"
    THEN [current |-> item.attr, unparsed |-> Tail(list)]
    ELSE IF item.type = "string"
    THEN IF Len(list) = 1
         THEN [current |-> slogString(badKey, item.text), unparsed |-> <<>>]
         ELSE [current |-> slogAny(item.text, list[2]), unparsed |-> Tail(list)]
    ELSE [current |-> slogAny(badKey, item), unparsed |-> Tail(list)]

\* variant: a slog.Attr is never taken as the value of a key
parseNext_AttrNeverValue(list) ==
    LET item == list[1] IN
    IF item.type = "slog.Attr"
    THEN [current |-> item.attr, unparsed |-> Tail(list)]
    ELSE IF item.type = "string"
    THEN IF Len(list) = 1 \/ list[2].type = "slog.Attr"
         THEN [current |-> slogString(badKey, item.text), unparsed |-> Tail(list)]
         ELSE [current |-> slogAny(item.text, list[2]), unparsed |-> Tail(Tail(list))]
    ELSE [current |-> slogAny(badKey, item), unparsed |-> Tail(list)]

\* one round of the loop of ParseAttrs: the type switch on unparsed[0]
parseNext(list) ==
    LET item == list[1] IN
    IF item.type = "slog.Attr"
    THEN [current |-> item.attr, unparsed |-> Tail(list)]
    ELSE IF item.type = "string"
    THEN IF Len(list) = 1
         THEN [current |-> slogString(badKey, item.text), unparsed |-> <<>>]
         ELSE [current |-> slogAny(item.text, list[2]), unparsed |-> Tail(Tail(list))]
    ELSE [current |-> slogAny(badKey, item), unparsed |-> Tail(list)]

RECURSIVE parseLoop(_, _, _)
\* the loop `for len(unparsed) > 0`; `rounds` logs how many items each round
\* took off the list
parseLoop(list, attrs, rounds) ==
    IF Len(list) = 0
    THEN [parsed |-> attrs, taken |-> rounds]
    ELSE LET next == parseNext(list) IN
         parseLoop(next.unparsed, Append(attrs, next.current),
                   Append(rounds, Len(list) - Len(next.unparsed)))

ParseAttrs(list) == parseLoop(list, <<>>, <<>>)

\* the caller has some argument list
InitAttrs ==
    /\ \E n \in 0..MaxItems : unparsed \in [1..n -> Items]
    /\ parsed = <<>>
    /\ taken = <<>>
    /\ stack = <<>>
    /\ pc = "build"
    /\ target = Nil
    /\ result = NoResult
    /\ arrays = <<>>
    /\ texts = <<>>
    /\ procs = <<>>
    /\ given = <<>>

\* parsed := internal.ParseAttrs(unparsed)
CallParseAttrs ==
    /\ pc = "build"
    /\ parsed' = ParseAttrs(unparsed).parsed
    /\ taken' = ParseAttrs(unparsed).taken
    /\ pc' = "called"
    /\ UNCHANGED <<stack, target, result, unparsed, heapVars, callVars, ctxVars>>

NextAttrs == CallParseAttrs

SpecAttrs == InitAttrs /\ [][NextAttrs]_vars

(***************************************************************************)
(* The values with log attributes (wrap.go) and the values of package      *)
(* ctxwrap (ctxwrap/ctxwrap.go), which carry a context.Context and         *)
(* possibly log attributes; and SpecMeta, a caller building trees of them. *)
(* `given` holds, for each of the caller's values, the context handed to   *)
(* the constructor that made it.                                           *)
(***************************************************************************)
\* most error values in a tree of SpecMeta
MaxMeta == 3

\* the contexts and the log attributes the callers pass
Contexts == { "ctx1", "ctx2" }
LogAttributes == { <<anyString("k"), anyInt(2), anyString("j")>> }
\* stands in `given` for a value made without a context
NoContext == "none"

\* fmt.Sprintf(messageFormat, formatArgs...) for a format that ends in one
\* verb
Sprintf(messageFormat, formatArg) == messageFormat \o formatArg

\* wrap.ErrorWithAttrs, wrap.ErrorsWithAttrs, wrap.NewErrorWithAttrs
ErrorWithAttrs(wrapped, message, logAttributes) ==
    [kind |-> "wrappedErrorWithAttrs", message |-> message, wrapped |-> <<wrapped>>,
     attrs |-> ParseAttrs(logAttributes).parsed]
ErrorsWithAttrs(wrapped, message, logAttributes) ==
    [kind |-> "wrappedErrorsWithAttrs", message |-> message, wrapped |-> wrapped,
     attrs |-> ParseAttrs(logAttributes).parsed]
NewErrorWithAttrs(message, logAttributes) ==
    [kind |-> "errorWithAttrs", message |-> message, wrapped |-> <<>>,
     attrs |-> ParseAttrs(logAttributes).parsed]

\* ctxwrap.Error, ctxwrap.Errors, ctxwrap.NewError
ctxError(ctx, wrapped, message) ==
    [kind |-> "ctxwrap.wrappedError", message |-> message, wrapped |-> <<wrapped>>,
     ctx |-> ctx]
ctxErrors(ctx, wrapped, message) ==
    [kind |-> "ctxwrap.wrappedErrors", message |-> message, wrapped |-> wrapped,
     ctx |-> ctx]
ctxNewError(ctx, message) ==
    [kind |-> "ctxwrap.errorWithContext", message |-> message, wrapped |-> <<>>,
     ctx |-> ctx]

\* ctxwrap.Errorf, ctxwrap.Errorsf, ctxwrap.NewErrorf
ctxErrorf(ctx, wrapped, messageFormat, formatArg) ==
    ctxError(ctx, wrapped, Sprintf(messageFormat, formatArg))
ctxErrorsf(ctx, wrapped, messageFormat, formatArg) ==
    ctxErrors(ctx, wrapped, Sprintf(messageFormat, formatArg))
ctxNewErrorf(ctx, messageFormat, formatArg) ==
    ctxNewError(ctx, Sprintf(messageFormat, formatArg))

\* ctxwrap.ErrorWithAttrs, ctxwrap.ErrorsWithAttrs, ctxwrap.NewErrorWithAttrs
ctxErrorWithAttrs(ctx, wrapped, message, logAttributes) ==
    [kind |-> "ctxwrap.wrappedErrorWithAttrs", message |-> message,
     wrapped |-> <<wrapped>>, ctx |-> ctx, attrs |-> ParseAttrs(logAttributes).parsed]
ctxErrorsWithAttrs(ctx, wrapped, message, logAttributes) ==
    [kind |-> "ctxwrap.wrappedErrorsWithAttrs", message |-> message,
     wrapped |-> wrapped, ctx |-> ctx, attrs |-> ParseAttrs(logAttributes).parsed]
ctxNewErrorWithAttrs(ctx, message, logAttributes) ==
    [kind |-> "ctxwrap.errorWithAttrs", message |-> message, wrapped |-> <<>>,
     ctx |-> ctx, attrs |-> ParseAttrs(logAttributes).parsed]

\* the dynamic type implements `Context() context.Context`
HasContext(err) ==
    err.kind \in { "ctxwrap.wrappedError", "ctxwrap.wrappedErrors",
                   "ctxwrap.wrappedErrorWithAttrs", "ctxwrap.wrappedErrorsWithAttrs",
                   "ctxwrap.errorWithContext", "ctxwrap.errorWithAttrs" }

\* variant: a wrapper answers with the context of its first cause when that
\* has one
Context_OfCause(err) ==
    IF err.wrapped # <<>> /\ HasContext(err.wrapped[1]) THEN err.wrapped[1].ctx
    ELSE err.ctx

\* the Context() methods of package ctxwrap
Context(err) == err.ctx

\* the LogAttrs() methods
LogAttrs(err) == err.attrs

\* the new value `made` replaces the newest n values; `ctx` is the context
\* the constructor was given
MetaPush(n, made, ctx) ==
    /\ pc = "build"
    /\ n <= Len(stack)
    /\ SizeAll(stack, 1) < MaxMeta
    /\ stack' = Append(Pop(n), made)
    /\ given' = Append(SubSeq(given, 1, Len(given) - n), ctx)
    /\ UNCHANGED <<pc, target, result, heapVars, callVars, attrVars>>

\* err := errors.New(message)  or  wrap.NewErrorWithAttrs(message, attrs...)
MetaNew ==
    /\ pc = "build"
    /\ \E message \in Messages, attrs \in LogAttributes :
          \/ MetaPush(0, errorsNew(message), NoContext)
          \/ MetaPush(0, NewErrorWithAttrs(message, attrs), NoContext)

\* err := ctxwrap.NewError / NewErrorf / NewErrorWithAttrs(ctx, ...)
MetaCtxNew ==
    /\ pc = "build"
    /\ \E ctx \in Contexts, message \in WrapperMessages, attrs \in LogAttributes :
          \/ MetaPush(0, ctxNewError(ctx, message), ctx)
          \/ MetaPush(0, ctxNewErrorf(ctx, message, <<"1">>), ctx)
          \/ MetaPush(0, ctxNewErrorWithAttrs(ctx, message, attrs), ctx)

\* err = wrap.Error / wrap.ErrorWithAttrs(err, ...)
MetaWrap ==
    /\ Len(stack) >= 1
    /\ \E message \in WrapperMessages, attrs \in LogAttributes :
          \/ MetaPush(1, Error(Top, message), NoContext)
          \/ MetaPush(1, ErrorWithAttrs(Top, message, attrs), NoContext)

\* err = ctxwrap.Error / Errorf / ErrorWithAttrs(ctx, err, ...)
MetaCtxWrap ==
    /\ Len(stack) >= 1
    /\ \E ctx \in Contexts, message \in WrapperMessages, attrs \in LogAttributes :
          \/ MetaPush(1, ctxError(ctx, Top, message), ctx)
          \/ MetaPush(1, ctxErrorf(ctx, Top, message, <<"1">>), ctx)
          \/ MetaPush(1, ctxErrorWithAttrs(ctx, Top, message, attrs), ctx)

\* err = wrap.Errors / wrap.ErrorsWithAttrs([]error{...}, ...)
MetaWraps ==
    /\ pc = "build"
    /\ \E n \in 1..MaxCauses, message \in WrapperMessages, attrs \in LogAttributes :
        /\ n <= Len(stack)
        /\ \/ MetaPush(n, Errors(TopN(n), message), NoContext)
           \/ MetaPush(n, ErrorsWithAttrs(TopN(n), message, attrs), NoContext)

\* err = ctxwrap.Errors / Errorsf / ErrorsWithAttrs(ctx, []error{...}, ...)
MetaCtxWraps ==
    /\ pc = "build"
    /\ \E n \in 1..MaxCauses, ctx \in Contexts, message \in WrapperMessages,
          attrs \in LogAttributes :
        /\ n <= Len(stack)
        /\ \/ MetaPush(n, ctxErrors(ctx, TopN(n), message), ctx)
           \/ MetaPush(n, ctxErrorsf(ctx, TopN(n), message, <<"1">>), ctx)
           \/ MetaPush(n, ctxErrorsWithAttrs(ctx, TopN(n), message, attrs), ctx)

\* text := err.Error()
MetaCallError == DoCallError /\ UNCHANGED <<heapVars, callVars, attrVars, ctxVars>>

NextMeta ==
    \/ MetaNew \/ MetaCtxNew \/ MetaWrap \/ MetaCtxWrap \/ MetaWraps \/ MetaCtxWraps
    \/ MetaCallError

SpecMeta == Init /\ [][NextMeta]_vars

(***************************************************************************)
(* SpecClassify: one call of unwrapError on a wrapper of another library:  *)
(* a value with Error() and Unwrap() but no WrappingMessage(), whose text  *)
(* and whose cause's text are any texts, and whose cause may be nil.       *)
(***************************************************************************)
\* most characters in the wrapper's text
MaxText == 4
\* most characters in the cause's text
MaxChildText == 1

\* the texts of up to n characters over a letter, the colon, the space and
\* the line break
TextsUpTo(n) == UNION { [1..k -> {"a", COLON, SP, NL}] : k \in 0..n }

\* the caller has some wrapper of another library
InitClassify ==
    /\ \E fullText \in TextsUpTo(MaxText) :
          \/ \E childText \in TextsUpTo(MaxChildText) :
                target = fmtWrapError(fullText, errorsNew(childText))
          \/ target = fmtWrapError(fullText, Nil)
    /\ pc = "build"
    /\ result = NoResult
    /\ stack = <<>>
    /\ arrays = <<>>
    /\ texts = <<>>
    /\ procs = <<>>
    /\ unparsed = <<>>
    /\ parsed = <<>>
    /\ taken = <<>>
    /\ given = <<>>

\* unwrapped, errMessage, errMessageIsWrappingMessage := unwrapError(err)
CallUnwrapError ==
    /\ pc = "build"
    /\ result' = unwrapError(target)
    /\ pc' = "called"
    /\ UNCHANGED <<stack, target, heapVars, callVars, attrVars, ctxVars>>

NextClassify == CallUnwrapError

SpecClassify == InitClassify /\ [][NextClassify]_vars

(***************************************************************************)
(* SpecForeign: trees that mix the library's wrappers with wrappers of     *)
(* other libraries: fmt.Errorf with one %w, and a multi-cause wrapper with *)
(* Unwrap() []error and no WrappingMessage(), whose text is the texts of   *)
(* its causes, one per line (as errors.Join makes it).                     *)
(***************************************************************************)
\* most error values in a tree of SpecForeign
MaxForeign == 4

RECURSIVE joinTexts(_, _)
\* the texts of the causes from the k-th on, a line break between them
joinTexts(errs, k) ==
    IF k > Len(errs) THEN <<>>
    ELSE (IF k = 1 THEN <<>> ELSE <<NL>>) \o ErrorString(errs[k]) \o joinTexts(errs, k + 1)

\* a value of another library that implements wrappingErrors only
joinError(errs) == [kind |-> "joinError", message |-> joinTexts(errs, 1), wrapped |-> errs]

\* err = a multi-cause wrapper of another library around the newest n values
DoJoin(bound) ==
    /\ pc = "build"
    /\ SizeAll(stack, 1) < bound
    /\ \E n \in 1..MaxCauses :
          /\ n <= Len(stack)
          /\ stack' = Append(Pop(n), joinError(TopN(n)))
    /\ UNCHANGED <<pc, target, result>>

ForeignNewLeaf == DoNew(MaxForeign) /\ UNCHANGED <<heapVars, callVars, attrVars, ctxVars>>
ForeignErrorf == DoFmtErrorf(MaxForeign) /\ UNCHANGED <<heapVars, callVars, attrVars, ctxVars>>
ForeignJoin == DoJoin(MaxForeign) /\ UNCHANGED <<heapVars, callVars, attrVars, ctxVars>>
ForeignWrapError == DoError(MaxForeign) /\ UNCHANGED <<heapVars, callVars, attrVars, ctxVars>>
ForeignWrapErrors == DoErrors(MaxForeign) /\ UNCHANGED <<heapVars, callVars, attrVars, ctxVars>>
ForeignCallError == DoCallError /\ UNCHANGED <<heapVars, callVars, attrVars, ctxVars>>

NextForeign ==
    \/ ForeignNewLeaf \/ ForeignErrorf \/ ForeignJoin
    \/ ForeignWrapError \/ ForeignWrapErrors \/ ForeignCallError

SpecForeign == Init /\ [][NextForeign]_vars

(***************************************************************************)
(* SpecPlain: trees of wrap.Error and wrap.Errors over errors of other     *)
(* libraries that have no Unwrap method and whose texts hold colons,       *)
(* spaces and line breaks.                                                  *)
(***************************************************************************)
\* most error values in a tree of SpecPlain
MaxPlain == 4

\* the texts of the errors without Unwrap
PlainMessages ==
    { <<"a">>,
      <<"a", COLON, SP, "b", COLON, SP, "c">>,
      <<"a", COLON, NL, "b", COLON, SP, "c">> }

\* err := errors.New(message)   with a text of PlainMessages
DoNewPlain(bound) ==
    /\ pc = "build"
    /\ SizeAll(stack, 1) < bound
    /\ \E message \in PlainMessages : stack' = Append(stack, errorsNew(message))
    /\ UNCHANGED <<pc, target, result>>

PlainNewLeaf == DoNewPlain(MaxPlain) /\ UNCHANGED <<heapVars, callVars, attrVars, ctxVars>>
PlainWrapError == DoError(MaxPlain) /\ UNCHANGED <<heapVars, callVars, attrVars, ctxVars>>
PlainWrapErrors == DoErrors(MaxPlain) /\ UNCHANGED <<heapVars, callVars, attrVars, ctxVars>>
PlainCallError == DoCallError /\ UNCHANGED <<heapVars, callVars, attrVars, ctxVars>>

NextPlain == PlainNewLeaf \/ PlainWrapError \/ PlainWrapErrors \/ PlainCallError

SpecPlain == Init /\ [][NextPlain]_vars

(***************************************************************************)
(* SpecCycle: a caller whose values refer to each other. `stack` is the    *)
(* caller's variables; the causes of a value are the numbers of the        *)
(* variables it was built from. A value built by wrap.Error refers to a    *)
(* value built before it; a value built by wrap.Errors holds a slice, and  *)
(* the caller can store any of its values into it afterwards, the wrapper  *)
(* itself included. Error() is run one writeErrorListItem at a time; each  *)
(* pending call carries the number of writeErrorListItem frames on the     *)
(* goroutine's stack when it runs. The Go runtime ends the program when    *)
(* the stack outgrows its limit.                                           *)
(***************************************************************************)
\* most variables the caller holds
MaxGraph == 3
\* most nested writeErrorListItem frames the goroutine's stack has room for
MaxDepth == 3

\* the slices a value built by wrap.Errors can be given when it is the i-th
\* variable: some of the variables before it, in the order they were made
SlicesOver(i) ==
    UNION { { errs \in [1..k -> 1..(i - 1)] : \A a, b \in 1..k : a < b => errs[a] < errs[b] }
            : k \in 1..MaxCauses }

\* e := errors.New("a")
CycleNewLeaf ==
    /\ pc = "build"
    /\ procs = <<>>
    /\ Len(stack) < MaxGraph
    /\ stack' = Append(stack, errorsNew(<<"a">>))
    /\ UNCHANGED <<pc, target, result, heapVars, callVars, attrVars, ctxVars>>

\* w := wrap.Error(e, "m")   e one of the caller's variables
CycleError ==
    /\ pc = "build"
    /\ procs = <<>>
    /\ Len(stack) < MaxGraph
    /\ \E j \in DOMAIN stack : stack' = Append(stack, Error(j, <<"m">>))
    /\ UNCHANGED <<pc, target, result, heapVars, callVars, attrVars, ctxVars>>

\* w := wrap.Errors(errs, "m")   errs a slice of the caller's variables
CycleErrors ==
    /\ pc = "build"
    /\ procs = <<>>
    /\ Len(stack) < MaxGraph
    /\ \E errs \in SlicesOver(Len(stack) + 1) : stack' = Append(stack, Errors(errs, <<"m">>))
    /\ UNCHANGED <<pc, target, result, heapVars, callVars, attrVars, ctxVars>>

\* errs[i] = e   the caller writes into the slice it passed to wrap.Errors
CycleStore ==
    /\ pc = "build"
    /\ procs = <<>>
    /\ \E w \in DOMAIN stack :
          /\ stack[w].kind = "wrappedErrors"
          /\ \E i \in DOMAIN stack[w].wrapped, j \in DOMAIN stack :
                /\ stack[w].wrapped[i] # j
                /\ stack' = [stack EXCEPT ![w].wrapped[i] = j]
    /\ pc' = "stored"
    /\ UNCHANGED <<target, result, heapVars, callVars, attrVars, ctxVars>>

\* a pending call of writeErrorListItem, `depth` frames deep
framed(items, depth) ==
    [k \in DOMAIN items |->
        [err |-> items[k].err, indent |-> items[k].indent,
         partOfList |-> items[k].partOfList, depth |-> depth]]

\* text := w.Error() on the newest value: BuildWrappedErrorString /
\* BuildWrappedErrorsString up to their first call of writeErrorListItem
CycleEnter ==
    /\ pc \in {"build", "stored"}
    /\ procs = <<>>
    /\ Len(stack) >= 1
    /\ HasWrappingMessage(Top)
    /\ procs' = <<[at |-> "items", todo |-> framed(firstItems(Top), 1), steps |-> 0]>>
    /\ pc' = "called"
    /\ UNCHANGED <<stack, target, result, heapVars, attrVars, ctxVars>>

\* variant: a cause that is the value Error() was called on is not rendered
\* again
CycleItem_SkipRoot ==
    /\ procs # <<>>
    /\ procs[1].at = "items"
    /\ procs[1].todo # <<>>
    /\ Head(procs[1].todo).depth <= MaxDepth
    /\ LET item == Head(procs[1].todo)
           step == itemStep([err |-> stack[item.err], indent |-> item.indent,
                             partOfList |-> item.partOfList])
           next == SelectSeq(step.next, LAMBDA n : n.err # Len(stack))
       IN  procs' = [procs EXCEPT ![1].todo = framed(next, item.depth + 1) \o Tail(@),
                                  ![1].steps = @ + 1]
    /\ UNCHANGED <<treeVars, heapVars, attrVars, ctxVars>>

\* the next call of writeErrorListItem: it reads the value its argument refers
\* to and goes on to call itself for the causes
CycleItem ==
    /\ procs # <<>>
    /\ procs[1].at = "items"
    /\ procs[1].todo # <<>>
    /\ Head(procs[1].todo).depth <= MaxDepth
    /\ LET item == Head(procs[1].todo)
           step == itemStep([err |-> stack[item.err], indent |-> item.indent,
                             partOfList |-> item.partOfList])
       IN  procs' = [procs EXCEPT ![1].todo = framed(step.next, item.depth + 1) \o Tail(@),
                                  ![1].steps = @ + 1]
    /\ UNCHANGED <<treeVars, heapVars, attrVars, ctxVars>>

\* the next call of writeErrorListItem finds no room on the goroutine's
\* stack: the runtime ends the program, Error() never returns
CycleOverflow ==
    /\ procs # <<>>
    /\ procs[1].at = "items"
    /\ procs[1].todo # <<>>
    /\ Head(procs[1].todo).depth > MaxDepth
    /\ procs' = [procs EXCEPT ![1].at = "overflow"]
    /\ UNCHANGED <<treeVars, heapVars, attrVars, ctxVars>>

\* return builder.String()
CycleReturn ==
    /\ procs # <<>>
    /\ procs[1].at = "items"
    /\ procs[1].todo = <<>>
    /\ procs' = [procs EXCEPT ![1].at = "returned"]
    /\ UNCHANGED <<treeVars, heapVars, attrVars, ctxVars>>

NextCycle ==
    \/ CycleNewLeaf \/ CycleError \/ CycleErrors \/ CycleStore
    \/ CycleEnter \/ CycleItem \/ CycleOverflow \/ CycleReturn

\* a goroutine that is inside Error() keeps running
SpecCycle ==
    /\ Init
    /\ [][NextCycle]_vars
    /\ WF_vars(CycleItem) /\ WF_vars(CycleOverflow) /\ WF_vars(CycleReturn)

(***************************************************************************)
(* Vocabulary of the properties: the output format as the documentation    *)
(* describes it, written line by line.                                     *)
(***************************************************************************)
Spaces(n) == [i \in 1..n |-> SP]

RECURSIVE LinesFrom(_, _, _)
LinesFrom(s, i, line) ==
    IF i > Len(s) THEN <<line>>
    ELSE IF s[i] = NL THEN <<line>> \o LinesFrom(s, i + 1, <<>>)
    ELSE LinesFrom(s, i + 1, Append(line, s[i]))

\* the lines of a text: the maximal pieces without a line break
Lines(s) == LinesFrom(s, 1, <<>>)

RECURSIVE JoinFrom(_, _, _)
JoinFrom(lines, sep, k) ==
    IF k > Len(lines) THEN <<>>
    ELSE (IF k = 1 THEN <<>> ELSE sep) \o lines[k] \o JoinFrom(lines, sep, k + 1)

HasLineBreak(s) == \E i \in DOMAIN s : s[i] = NL
EndsWithLineBreak(s) == Len(s) > 0 /\ s[Len(s)] = NL

\* a label as a list item at `level` shows it: the first line as it is, every
\* later line behind `level` two-space units
Continued(label, level) == JoinFrom(Lines(label), <<NL>> \o Spaces(2 * level), 1)

\* the bullet of a list item at `level`
Bullet(level) == <<NL>> \o Spaces(2 * (level - 1)) \o <<DASH, SP>>

\* a whole list item at `level`
ItemLine(label, level) == Bullet(level) \o Continued(label, level)

\* Error() was called and returned a text
Returned == pc = "called" /\ ~result.panicked

\* the part of the returned text that the i-th writeErrorListItem invocation
\* and the invocations before the next one wrote
ItemText(i) ==
    SubSeq(result.text, result.calls[i].at + 1,
           IF i < Len(result.calls) THEN result.calls[i + 1].at ELSE Len(result.text))

\* the invocations made for the causes of the error of invocation i, in order
CauseCalls(i) == SelectSeq([j \in 1..Len(result.calls) |-> j],
                           LAMBDA j : result.calls[j].caller = i)

\* the text at the start of invocation i is the bullet of its indent level
BulletAt(i) ==
    LET c == result.calls[i] IN
    SubSeq(result.text, c.at + 1, c.at + Len(Bullet(c.indent))) = Bullet(c.indent)

\* the list items of the documented format for an error built from
\* errors.New, wrap.Error and wrap.Errors, as a list item at `level`
RECURSIVE RenderedItem(_, _, _)
RECURSIVE RenderedList(_, _, _)
RenderedItem(node, level, partOfSiblingList) ==
    ItemLine(node.message, level) \o
    (IF node.kind = "wrappedError"
     THEN RenderedItem(node.wrapped[1],
                       IF partOfSiblingList THEN level + 1 ELSE level, FALSE)
     ELSE IF node.kind = "wrappedErrors"
     THEN RenderedList(node.wrapped,
                       IF partOfSiblingList \/ Len(node.wrapped) > 1
                       THEN level + 1 ELSE level, 1)
     ELSE <<>>)
RenderedList(nodes, level, k) ==
    IF k > Len(nodes) THEN <<>>
    ELSE RenderedItem(nodes[k], level, Len(nodes) > 1) \o RenderedList(nodes, level, k + 1)

(***************************************************************************)
(* C1                                                                      *)
(***************************************************************************)
\* the cause's own Error() text is what the wrap shows for it
SameAsOwnText(cause) ==
    /\ ~HasLineBreak(cause.message)
    /\ ~(cause.kind = "wrappedErrors" /\ Len(cause.wrapped) >= 2)

C2_ErrorNeverPanics == pc = "called" => ~result.panicked

(***************************************************************************)
(* C3                                                                      *)
(***************************************************************************)
PlainLeaf(err) == err.kind = "errorString" /\ ~HasLineBreak(err.message)

RECURSIVE LevelOneItems(_, _)
LevelOneItems(errs, k) ==
    IF k > Len(errs) THEN <<>>
    ELSE <<NL, DASH, SP>> \o errs[k].message \o LevelOneItems(errs, k + 1)

\* C3: Errors(causes, msg) over leaves with single-line messages renders msg and
\* then, per cause in order, "\n- " and the cause's message: every item at
\* level 1, whatever the number of causes
C3_ErrorsListsLeavesAtLevelOne ==
    (/\ Returned
     /\ target.kind = "wrappedErrors"
     /\ \A k \in DOMAIN target.wrapped : PlainLeaf(target.wrapped[k]))
    => /\ result.text = target.message \o LevelOneItems(target.wrapped, 1)
       /\ Len(result.calls) = Len(target.wrapped)
       /\ \A i \in DOMAIN result.calls : result.calls[i].indent = 1

C3_Witness ==
    /\ Returned
    /\ target.kind = "wrappedErrors"
    /\ Len(target.wrapped) >= 2
    /\ \A k \in DOMAIN target.wrapped : PlainLeaf(target.wrapped[k])

(***************************************************************************)
(* C4                                                                      *)
(***************************************************************************)
RECURSIVE IsErrorChain(_)
\* one or more wrap.Error wraps around an errors.New leaf
IsErrorChain(err) ==
    /\ err.kind = "wrappedError"
    /\ \/ err.wrapped[1].kind = "errorString"
       \/ IsErrorChain(err.wrapped[1])

RECURSIVE ChainItems(_)
\* the level-1 items of the labels below the outermost wrap, the leaf last
ChainItems(err) ==
    IF err.kind = "wrappedError"
    THEN ItemLine(err.message, 1) \o ChainItems(err.wrapped[1])
    ELSE ItemLine(err.message, 1)

RECURSIVE ChainLength(_)
ChainLength(err) == IF err.kind = "wrappedError" THEN 1 + ChainLength(err.wrapped[1]) ELSE 0

\* C4: a chain of n >= 1 Error wraps around a leaf renders, after the root's
\* message, every inner label and the leaf as an item at level 1 (bullet without
\* leading spaces), outermost first: depth adds no indentation
C4_NestedErrorIsFlatList ==
    (Returned /\ IsErrorChain(target)) =>
        /\ result.text = target.message \o ChainItems(target.wrapped[1])
        /\ Len(result.calls) = ChainLength(target)
        /\ \A i \in DOMAIN result.calls : result.calls[i].indent = 1 /\ BulletAt(i)

C4_Witness == Returned /\ IsErrorChain(target) /\ ChainLength(target) >= 3

(***************************************************************************)
(* C5                                                                      *)
(***************************************************************************)
\* C5: a multi-cause wrap of two or more causes that is a list item at level L
\* has every cause as a list item at level L+1, its bullet two spaces further
\* in, whether or not the wrap is itself part of a sibling list
C5_ManyCausesOneLevelDeeper ==
    Returned =>
        \A i \in DOMAIN result.calls :
            LET c == result.calls[i]
                js == CauseCalls(i)
            IN (c.err.kind = "wrappedErrors" /\ Len(c.err.wrapped) >= 2) =>
                   /\ BulletAt(i)
                   /\ Len(js) = Len(c.err.wrapped)
                   /\ \A k \in DOMAIN js :
                          /\ result.calls[js[k]].err = c.err.wrapped[k]
                          /\ result.calls[js[k]].indent = c.indent + 1
                          /\ BulletAt(js[k])

\* the item of invocation i is one of two or more causes of the same wrap
OneOfSeveral(i) ==
    Cardinality({j \in DOMAIN result.calls :
                    result.calls[j].caller = result.calls[i].caller}) >= 2

C5_Witness ==
    /\ Returned
    /\ \E i \in DOMAIN result.calls :
          /\ result.calls[i].err.kind = "wrappedErrors"
          /\ Len(result.calls[i].err.wrapped) >= 2
          /\ OneOfSeveral(i)

(***************************************************************************)
(* C6                                                                      *)
(***************************************************************************)
\* C6: a multi-cause wrap holding exactly one cause, as a list item at level L,
\* has its cause at level L when the wrap is not one of several siblings and at
\* level L+1 when it is; its item reads as that of Error(cause, msg) in its place
C6_OneCauseIndentsLikeError ==
    Returned =>
        \A i \in DOMAIN result.calls :
            LET c == result.calls[i]
                js == CauseCalls(i)
            IN (c.err.kind = "wrappedErrors" /\ Len(c.err.wrapped) = 1) =>
                   /\ BulletAt(i)
                   /\ Len(js) = 1
                   /\ result.calls[js[1]].err = c.err.wrapped[1]
                   /\ result.calls[js[1]].indent =
                          IF OneOfSeveral(i) THEN c.indent + 1 ELSE c.indent
                   /\ BulletAt(js[1])
                   /\ writeErrorListItem(NewBuilder, c.err, c.indent, c.partOfList, 0).out
                      = writeErrorListItem(NewBuilder,
                                           Error(c.err.wrapped[1], c.err.message),
                                           c.indent, c.partOfList, 0).out

C6_Witness ==
    /\ Returned
    /\ \E i, j \in DOMAIN result.calls :
          /\ result.calls[i].err.kind = "wrappedErrors"
          /\ Len(result.calls[i].err.wrapped) = 1
          /\ OneOfSeveral(i)
          /\ result.calls[j].err.kind = "wrappedErrors"
          /\ Len(result.calls[j].err.wrapped) = 1
          /\ ~OneOfSeveral(j)

(***************************************************************************)
(* C7                                                                      *)
(***************************************************************************)
\* C7: a list item at level L whose label has line breaks shows the label's
\* first line right behind the bullet and every later line behind exactly L
\* two-space units
C7_ContinuationLinesIndented ==
    Returned =>
        \A i \in DOMAIN result.calls :
            LET c == result.calls[i] IN
            ItemText(i) = Bullet(c.indent) \o Continued(c.err.message, c.indent)

C7_Witness ==
    /\ Returned
    /\ \E i \in DOMAIN result.calls :
          /\ result.calls[i].indent >= 2
          /\ HasLineBreak(result.calls[i].err.message)

(***************************************************************************)
(* C8                                                                      *)
(***************************************************************************)
\* the wrapper's full message is prefix + ": " or ":\n" + the cause's full
\* message, with a non-empty prefix
Conventional(err) ==
    /\ err.kind = "fmtWrapError"
    /\ LET cause == err.wrapped[1].message
           n == Len(err.message) - Len(cause) - 2
       IN /\ n >= 1
          /\ \E sep \in { <<COLON, SP>>, <<COLON, NL>> } :
                err.message = SubSeq(err.message, 1, n) \o sep \o cause

RECURSIVE IsFmtChain(_)
\* one or more conventional foreign wrappers around an errors.New leaf
IsFmtChain(err) ==
    /\ Conventional(err)
    /\ \/ err.wrapped[1].kind = "errorString"
       \/ IsFmtChain(err.wrapped[1])

PrefixOf(err) ==
    SubSeq(err.message, 1, Len(err.message) - Len(err.wrapped[1].message) - 2)

RECURSIVE FmtChainItems(_)
FmtChainItems(err) ==
    IF err.kind = "fmtWrapError"
    THEN ItemLine(PrefixOf(err), 1) \o FmtChainItems(err.wrapped[1])
    ELSE ItemLine(err.message, 1)

RECURSIVE FmtChainLength(_)
FmtChainLength(err) ==
    IF err.kind = "fmtWrapError" THEN 1 + FmtChainLength(err.wrapped[1]) ELSE 0

RECURSIVE SomePrefixHasColon(_)
SomePrefixHasColon(err) ==
    /\ err.kind = "fmtWrapError"
    /\ \/ PrefixOf(err) = <<"p", COLON, SP, "q">>
       \/ SomePrefixHasColon(err.wrapped[1])

RECURSIVE SomeSeparatorIsLineBreak(_)
SomeSeparatorIsLineBreak(err) ==
    /\ err.kind = "fmtWrapError"
    /\ \/ err.message[Len(PrefixOf(err)) + 2] = NL
       \/ SomeSeparatorIsLineBreak(err.wrapped[1])

\* C8: Error() of wrap.Error around a chain of k >= 1 conventional foreign
\* wrappers shows every prefix and the innermost leaf as k+1 list items at
\* level 1, outermost first, also for prefixes that contain ": "
C8_FmtChainLabelsRecovered ==
    (Returned /\ target.kind = "wrappedError" /\ IsFmtChain(target.wrapped[1])) =>
        /\ result.text = target.message \o FmtChainItems(target.wrapped[1])
        /\ Len(result.calls) = FmtChainLength(target.wrapped[1]) + 1
        /\ \A i \in DOMAIN result.calls : result.calls[i].indent = 1 /\ BulletAt(i)

C8_Witness ==
    /\ Returned
    /\ target.kind = "wrappedError"
    /\ IsFmtChain(target.wrapped[1])
    /\ FmtChainLength(target.wrapped[1]) >= 2
    /\ SomePrefixHasColon(target.wrapped[1])
    /\ SomeSeparatorIsLineBreak(target.wrapped[1])

(***************************************************************************)
(* C9                                                                      *)
(***************************************************************************)
\* C9 as stated: whatever the tree and the labels, the text Error() returns
\* does not end with a line break
C9_NoTrailingLineBreak == Returned => ~EndsWithLineBreak(result.text)

\* C9 amended: the renderer adds no line break after the last line; the text
\* ends with a line break only when the root is a multi-cause wrap with zero
\* causes whose own message ends with one (the root message is written as
\* given); a list item's label that ends with a line break is followed by its
\* continuation indent
C9_TrailingLineBreakOnlyFromBareRoot ==
    Returned =>
        (EndsWithLineBreak(result.text)
         <=> /\ target.kind = "wrappedErrors"
             /\ Len(target.wrapped) = 0
             /\ EndsWithLineBreak(target.message))

C9_Witness ==
    /\ Returned
    /\ Len(result.calls) >= 1
    /\ EndsWithLineBreak(result.calls[Len(result.calls)].err.message)
    /\ ~EndsWithLineBreak(result.text)

(***************************************************************************)
(* C11                                                                     *)
(***************************************************************************)
\* the text w.Error() returns, for the caller's value number w
TextOf(w) == ErrorString(Load(stack[w]))

\* the causes w.Unwrap() hands out, for the caller's value number w
CausesOf(w) == Load(stack[w]).wrapped

\* the same two, read once the step is over
TextAfter(w) == ErrorString(LoadFrom(arrays', stack'[w]))

CausesAfter(w) == LoadFrom(arrays', stack'[w]).wrapped

\* the caller's Error() call of this step
IsErrorCall == texts' # texts

\* C11: a call of Error() changes nothing: every value the caller holds,
\* every slice, every value's causes and every value's text are after the call
\* what they were before it, so the text returned for a wrapper is the same
\* whether or not another wrapper holds the same cause
C11_ErrorCallChangesNothing ==
    [][IsErrorCall =>
          /\ stack' = stack
          /\ arrays' = arrays
          /\ \A w \in DOMAIN stack :
                /\ CausesAfter(w) = CausesOf(w)
                /\ TextAfter(w) = TextOf(w)
          /\ texts'[1].text = TextOf(texts'[1].of)]_vars

\* Error() was called on a wrapper that has a cause in common with another
\* wrapper the caller holds, one of them through a shared slice
C11_Witness ==
    /\ texts # <<>>
    /\ \E v \in DOMAIN stack :
          /\ v # texts[1].of
          /\ HasWrappingMessage(stack[v])
          /\ stack[v].kind # stack[texts[1].of].kind
          /\ \E i \in DOMAIN CausesOf(v) : \E j \in DOMAIN CausesOf(texts[1].of) :
                CausesOf(v)[i] = CausesOf(texts[1].of)[j]

(***************************************************************************)
(* C12                                                                     *)
(***************************************************************************)
\* C12: whatever the interleaving of the goroutines, each Error() call
\* returns the text the same call returns when it runs alone
C12_InterleavedCallsReturnOwnText ==
    \A p \in DOMAIN procs :
        procs[p].at = "returned" => procs[p].text = ErrorString(procs[p].err)

\* the calls, on different wrappers of one cause and two of them on the same
\* value, have all returned, and each made steps while another was writing
C12_Witness ==
    /\ \A p \in DOMAIN procs : procs[p].at = "returned" /\ procs[p].mixed
    /\ \E p, q \in DOMAIN procs :
          /\ procs[p].err # procs[q].err
          /\ procs[p].text # procs[q].text

(***************************************************************************)
(* C13                                                                     *)
(***************************************************************************)
RECURSIVE HandedIn(_)
\* a value and every value handed to a constructor on the way to building it
HandedIn(err) == {err} \cup UNION {HandedIn(err.wrapped[i]) : i \in DOMAIN err.wrapped}

RECURSIVE ReachedByUnwrap(_)
\* a value and every value got from it by calling Unwrap() again and again,
\* as errors.Is and errors.As walk it
ReachedByUnwrap(err) ==
    {err} \cup
    (IF IsWrappingError(err) THEN ReachedByUnwrap(Unwrap(err))
     ELSE IF IsWrappingErrors(err)
     THEN UNION {ReachedByUnwrap(Unwrap(err)[i]) : i \in DOMAIN Unwrap(err)}
     ELSE {})

\* C13: when wrap.Error(e, m) returns, Unwrap() of the result is e; when
\* wrap.Errors(es, m) returns, Unwrap() of the result is es, same elements in
\* the same order; and every value handed in at any depth is reached from the
\* result by following Unwrap()
C13_UnwrapReturnsTheCauses ==
    [][stack' # stack =>
          /\ Top'.kind = "wrappedError" => Unwrap(Top') = Top
          /\ Top'.kind = "wrappedErrors" =>
                Unwrap(Top') = TopN(Len(stack) - Len(stack') + 1)
          /\ HandedIn(Top') \subseteq ReachedByUnwrap(Top')]_vars

\* a single-cause wrapper around a wrapper of two different causes, one of
\* them itself a wrapper
C13_Witness ==
    /\ Len(stack) >= 1
    /\ Top.kind = "wrappedError"
    /\ Unwrap(Top).kind = "wrappedErrors"
    /\ Len(Unwrap(Unwrap(Top))) = 2
    /\ Unwrap(Unwrap(Top))[1] # Unwrap(Unwrap(Top))[2]
    /\ Unwrap(Unwrap(Top))[2].kind = "wrappedError"

(***************************************************************************)
(* C14                                                                     *)
(***************************************************************************)
RECURSIVE SumTo(_, _)
\* the sum of the first k numbers of a sequence
SumTo(counts, k) == IF k = 0 THEN 0 ELSE counts[k] + SumTo(counts, k - 1)

\* the place in the argument list where the k-th output record starts
StartOf(k) == SumTo(taken, k - 1) + 1

\* C14: the k-th output record is made from the argument list at the place
\* where the records before it stopped: a slog.Attr is passed on as it is
\* (one item); a string with an item after it gives the record {that string,
\* the next item} whatever the next item is (two items); a string at the end
\* gives {"!BADKEY", the string}; any other item gives {"!BADKEY", the item}
\* (one item); records with equal keys are all kept
C14_ParseAttrsPairsKeysAndValues ==
    pc = "called" =>
        /\ Len(parsed) = Len(taken)
        /\ \A k \in DOMAIN parsed :
              LET i == StartOf(k)
                  item == unparsed[i]
              IN  /\ i <= Len(unparsed)
                  /\ item.type = "slog.Attr" =>
                        taken[k] = 1 /\ parsed[k] = item.attr
                  /\ (item.type = "string" /\ i < Len(unparsed)) =>
                        /\ taken[k] = 1 + 1
                        /\ parsed[k] = [key |-> item.text, value |-> unparsed[i + 1]]
                  /\ (item.type = "string" /\ i = Len(unparsed)) =>
                        /\ taken[k] = 1
                        /\ parsed[k] = [key |-> "!BADKEY", value |-> item]
                  /\ item.type \notin {"slog.Attr", "string"} =>
                        /\ taken[k] = 1
                        /\ parsed[k] = [key |-> "!BADKEY", value |-> item]

\* a list holding a string followed by a slog.Attr, parsed into two records
\* with the same key
C14_Witness ==
    /\ pc = "called"
    /\ \E i \in DOMAIN unparsed :
          /\ i < Len(unparsed)
          /\ \E k \in DOMAIN parsed : StartOf(k) = i
          /\ unparsed[i].type = "string"
          /\ unparsed[i + 1].type = "slog.Attr"
    /\ \E k, l \in DOMAIN parsed : k # l /\ parsed[k].key = parsed[l].key

(***************************************************************************)
(* C15                                                                     *)
(***************************************************************************)
\* the items of the argument list the k-th output record was made from
MadeFrom(k) == SubSeq(unparsed, StartOf(k), StartOf(k) + taken[k] - 1)

\* the items an output record holds
HeldBy(attr, count) ==
    IF count = 1 + 1 THEN { <<anyString(attr.key), attr.value>> }
    ELSE { <<anyAttr(attr)>> } \cup
         (IF attr.key = "!BADKEY" THEN { <<attr.value>> } ELSE {})

\* C15: ParseAttrs returns for every argument list, and the output records
\* cut the list into consecutive pieces of one or two items, one piece per
\* record, which together are the whole list: every item is in exactly one
\* record
C15_ParseAttrsTakesEveryItemOnce ==
    /\ pc = "build" => ENABLED CallParseAttrs
    /\ pc = "called" =>
          /\ Len(parsed) = Len(taken)
          /\ \A k \in DOMAIN taken : taken[k] \in {1, 1 + 1}
          /\ SumTo(taken, Len(taken)) = Len(unparsed)
          /\ \A k \in DOMAIN parsed : MadeFrom(k) \in HeldBy(parsed[k], taken[k])

\* a list of odd length with each kind of item, a key-value pair first
C15_Witness ==
    /\ pc = "called"
    /\ Len(unparsed) = 3
    /\ unparsed[1].type = "string"
    /\ {unparsed[i].type : i \in DOMAIN unparsed} = {"string", "slog.Attr", "int"}

(***************************************************************************)
(* C16                                                                     *)
(***************************************************************************)
\* the caller's value number i was made by a constructor of package ctxwrap
MadeWithContext(i) == given[i] # NoContext

\* the k-th cause Unwrap() hands out
CauseOf(err, k) == IF IsWrappingError(err) THEN Unwrap(err) ELSE Unwrap(err)[k]

\* C16: a value returned by a constructor of package ctxwrap has Context(),
\* and Context() returns the context that constructor was given: when the
\* constructor returns, after the value was wrapped again (Context() of the
\* new wrapper's cause), and after Error() was called on it
C16_ContextIsTheOneGiven ==
    [][/\ \A i \in DOMAIN stack' :
             MadeWithContext(i)' =>
                HasContext(stack'[i]) /\ Context(stack'[i]) = given'[i]
       /\ (stack' # stack /\ Len(stack') <= Len(stack)) =>
             \A i \in Len(stack')..Len(stack) :
                MadeWithContext(i) =>
                   /\ HasContext(CauseOf(Top', i - Len(stack') + 1))
                   /\ Context(CauseOf(Top', i - Len(stack') + 1)) = given[i]
       /\ (pc' = "called" /\ pc = "build" /\ MadeWithContext(Len(stack))) =>
             /\ stack' = stack
             /\ given' = given
             /\ Context(target') = given[Len(stack)]]_vars

\* Error() was called on a ctxwrap wrapper whose cause is a ctxwrap wrapper
\* made with another context, itself over a ctxwrap leaf
C16_Witness ==
    /\ pc = "called"
    /\ HasContext(target)
    /\ IsWrappingError(target)
    /\ HasContext(Unwrap(target))
    /\ Context(Unwrap(target)) # Context(target)
    /\ Unwrap(target).wrapped # <<>>
    /\ HasContext(Unwrap(target).wrapped[1])

(***************************************************************************)
(* C17                                                                     *)
(***************************************************************************)
RECURSIVE Plain(_)
\* the same tree built with errors.New, wrap.Error and wrap.Errors only: the
\* same messages and causes, no log attributes and no context
Plain(err) ==
    IF err.kind \in SingleWrappers THEN Error(Plain(err.wrapped[1]), err.message)
    ELSE IF err.kind \in MultiWrappers
    THEN Errors([i \in DOMAIN err.wrapped |-> Plain(err.wrapped[i])], err.message)
    ELSE errorsNew(err.message)

RECURSIVE HasMetadataBelow(_)
\* some value under err carries log attributes or a context
HasMetadataBelow(err) ==
    \E i \in DOMAIN err.wrapped :
        err.wrapped[i] # Plain(err.wrapped[i]) \/ HasMetadataBelow(err.wrapped[i])

\* C17: the text Error() returns is the text of the tree with the same
\* messages and causes built by errors.New, wrap.Error and wrap.Errors:
\* log attributes and contexts, at the root or below it, change nothing
C17_MetadataNotInText ==
    Returned => result.text = ErrorString(Plain(target))

\* Error() was called on a value with log attributes and a context, over
\* a cause that carries metadata too
C17_Witness ==
    /\ Returned
    /\ target.kind \in {"ctxwrap.wrappedErrorWithAttrs", "ctxwrap.wrappedErrorsWithAttrs"}
    /\ LogAttrs(target) # <<>>
    /\ HasMetadataBelow(target)

(***************************************************************************)
(* C18                                                                     *)
(***************************************************************************)
\* C18: once a constructor has returned a value, nothing the caller does
\* later, to the slice it passed in or to a slice got from Unwrap(), changes
\* the text Error() returns for the value or the causes Unwrap() hands out
C18_ValuesNeverChange ==
    [][\A w \in DOMAIN stack :
          /\ TextOf(w)' = TextOf(w)
          /\ CausesOf(w)' = CausesOf(w)]_vars

(***************************************************************************)
(* C19                                                                     *)
(***************************************************************************)
\* a wrapper of another library whose text is not a label followed by ": "
\* or ":\n" and the text of its cause
Unsplittable(err) ==
    /\ err.kind = "fmtWrapError"
    /\ ~\E k \in 1..Len(err.message) : \E sep \in { <<":", " ">>, <<":", "\n">> } :
           err.message = SubSeq(err.message, 1, k) \o sep \o ErrorString(Unwrap(err))

\* the label of the value is its full text, not a wrapping message
LabelIsFullText(err) == Unsplittable(err) \/ err.kind = "joinError"

\* C19: a value whose label is not a wrapping message (a single-cause wrapper
\* of another library whose text cannot be split, or a multi-cause wrapper of
\* another library) is written as one list item holding its full text, and no
\* list item is written for any of its causes
C19_FullTextIsOneItem ==
    Returned =>
        \A i \in DOMAIN result.calls :
            LET c == result.calls[i] IN
            LabelIsFullText(c.err) =>
                /\ ItemText(i) = ItemLine(ErrorString(c.err), c.indent)
                /\ CauseCalls(i) = <<>>

\* the text holds the item of a multi-cause wrapper of another library around
\* two causes with different texts, one of them spanning several lines
C19_Witness ==
    /\ Returned
    /\ \E i \in DOMAIN result.calls :
          LET err == result.calls[i].err IN
          /\ err.kind = "joinError"
          /\ Len(Unwrap(err)) = 1 + 1
          /\ ErrorString(Unwrap(err)[1]) # ErrorString(Unwrap(err)[1 + 1])
          /\ HasLineBreak(ErrorString(Unwrap(err)[1]))

(***************************************************************************)
(* C20                                                                     *)
(***************************************************************************)
\* the claim's cut, len(fullText) - len(childText) - 2
CutOf(fullText, childText) == Len(fullText) - Len(childText) - (1 + 1)

\* the claim's condition, with the 0-based fullText[cut] and fullText[cut+1]
\* written 1-based
SplitsAt(fullText, childText, cut) ==
    /\ cut > 0
    /\ Len(childText) <= Len(fullText)
    /\ SubSeq(fullText, Len(fullText) - Len(childText) + 1, Len(fullText)) = childText
    /\ fullText[cut + 1] = ":"
    /\ fullText[cut + 1 + 1] \in {" ", "\n"}

\* the same condition said with texts: fullText is a non-empty beginning of
\* itself, then ": " or ":\n", then childText
IsLabelSeparatorChild(fullText, childText) ==
    \E k \in 1..Len(fullText) : \E sep \in { <<":", " ">>, <<":", "\n">> } :
        fullText = SubSeq(fullText, 1, k) \o sep \o childText

\* C20: for a wrapper of another library with a cause that is not nil,
\* unwrapError returns the cause, and (fullText[0:cut], true) exactly when
\* cut > 0, fullText ends with childText, fullText[cut] is a colon and
\* fullText[cut+1] a space or a line break; otherwise (fullText, false).
\* With a nil cause it returns (nil, fullText, false).
C20_SplitsExactlyAtColonSeparator ==
    pc = "called" =>
        LET fullText == target.message
            cause == Unwrap(target)
        IN  IF cause = Nil
            THEN result = [unwrapped |-> Nil, errMessage |-> fullText,
                           errMessageIsWrappingMessage |-> FALSE]
            ELSE LET childText == cause.message
                     cut == CutOf(fullText, childText)
                 IN  /\ result.unwrapped = cause
                     /\ result.errMessageIsWrappingMessage
                           <=> SplitsAt(fullText, childText, cut)
                     /\ result.errMessageIsWrappingMessage
                           <=> IsLabelSeparatorChild(fullText, childText)
                     /\ result.errMessage =
                           IF SplitsAt(fullText, childText, cut)
                           THEN SubSeq(fullText, 1, cut)
                           ELSE fullText

\* a text split at ":\n" in front of a cause with a text of its own
C20_Witness ==
    /\ pc = "called"
    /\ result.errMessageIsWrappingMessage
    /\ result.unwrapped.message # <<>>
    /\ target.message = result.errMessage \o <<":", "\n">> \o result.unwrapped.message

(***************************************************************************)
(* C21                                                                     *)
(***************************************************************************)
\* C21: an error without Unwrap is one list item: the invocation made for it
\* writes the bullet of its level and its whole text, continuation lines
\* indented, and makes no invocation below it, however many ": " and ":\n" the
\* text holds
C21_PlainErrorIsOneItem ==
    Returned =>
        \A i \in DOMAIN result.calls :
           result.calls[i].err.kind = "errorString" =>
              /\ ItemText(i) = ItemLine(result.calls[i].err.message, result.calls[i].indent)
              /\ CauseCalls(i) = <<>>

\* a text with a ":\n" and a ": " was rendered as one of several causes, one
\* level in
C21_Witness ==
    /\ Returned
    /\ \E i \in DOMAIN result.calls :
          /\ result.calls[i].err = errorsNew(<<"a", COLON, NL, "b", COLON, SP, "c">>)
          /\ result.calls[i].partOfList
          /\ result.calls[i].indent = 2

(***************************************************************************)
(* C22                                                                     *)
(***************************************************************************)
\* the positions of the colons of a text
ColonsOf(text) == { i \in DOMAIN text : text[i] = ":" }

\* the colons that no space and no line break follows
BareColonsOf(text) ==
    { i \in ColonsOf(text) : i = Len(text) \/ text[i + 1] \notin {" ", "\n"} }

\* C22: the label unwrapError returns for a wrapper of another library is the
\* whole text, or the text in front of one colon: the colon that a space or a
\* line break follows and that stands exactly two characters before the
\* cause's text, which is the rest of the text. The label is never cut in front
\* of a colon that no space or line break follows, and every other colon stays
\* inside the label or inside the cause's text
C22_OnlyCutIsTwoBeforeTheCause ==
    pc = "called" =>
        LET fullText == target.message
            label == result.errMessage
            colon == Len(label) + 1
        IN  IF result.errMessageIsWrappingMessage
            THEN /\ label = SubSeq(fullText, 1, Len(label))
                 /\ colon \in ColonsOf(fullText) \ BareColonsOf(fullText)
                 /\ Unwrap(target) # Nil
                 /\ colon + 1 = Len(fullText) - Len(Unwrap(target).message)
                 /\ SubSeq(fullText, colon + 2, Len(fullText)) = Unwrap(target).message
                 /\ \A i \in ColonsOf(fullText) \ {colon} :
                       i < colon \/ i > colon + 1
            ELSE label = fullText

\* a text with a colon in front of a letter was cut, at its other colon
C22_Witness ==
    /\ pc = "called"
    /\ result.errMessageIsWrappingMessage
    /\ \E i \in BareColonsOf(target.message) :
          /\ i < Len(target.message)
          /\ target.message[i + 1] = "a"
          /\ i <= Len(result.errMessage)

(***************************************************************************)
(* C23                                                                     *)
(***************************************************************************)
\* a multi-cause wrap that was given no causes
IsEmptyWrap(err) == err.kind = "wrappedErrors" /\ Len(err.wrapped) = 0

RECURSIVE EmptyWrapsAsLeaves(_)
\* the tree with an error without Unwrap in the place of every wrap without
\* causes, its text the wrap's message
EmptyWrapsAsLeaves(err) ==
    IF IsEmptyWrap(err) THEN errorsNew(err.message)
    ELSE [err EXCEPT !.wrapped =
             [k \in DOMAIN err.wrapped |-> EmptyWrapsAsLeaves(err.wrapped[k])]]

\* C23: a multi-cause wrap without causes renders its label only. At the root,
\* Error() returns the message and no list item; as a cause, its invocation
\* writes its own item at its level and makes no invocation below it, and the
\* whole text is the text of the same tree with leaves in the place of the
\* wraps without causes
C23_EmptyWrapIsItsLabel ==
    Returned =>
        /\ IsEmptyWrap(target) =>
              /\ result.text = target.message
              /\ result.calls = <<>>
        /\ \A i \in DOMAIN result.calls :
              IsEmptyWrap(result.calls[i].err) =>
                 /\ ItemText(i) = ItemLine(result.calls[i].err.message,
                                           result.calls[i].indent)
                 /\ CauseCalls(i) = <<>>
        /\ ~IsEmptyWrap(target) =>
              result.text = ErrorString(EmptyWrapsAsLeaves(target))

\* a wrap without causes was rendered as the first of several causes, one
\* level in, with an item after it
C23_Witness ==
    /\ Returned
    /\ \E i \in DOMAIN result.calls :
          /\ IsEmptyWrap(result.calls[i].err)
          /\ result.calls[i].partOfList
          /\ result.calls[i].indent = 2
          /\ i < Len(result.calls)

(***************************************************************************)
(* C24                                                                     *)
(***************************************************************************)
RECURSIVE IsBelow(_, _)
\* invocation j was made, directly or not, by invocation i
IsBelow(j, i) ==
    /\ j > i
    /\ \/ result.calls[j].caller = i
       \/ result.calls[j].caller > i /\ IsBelow(result.calls[j].caller, i)

\* the part of the returned text that invocation i and the invocations below it
\* wrote
NodeText(i) ==
    LET later == { j \in DOMAIN result.calls : j > i /\ ~IsBelow(j, i) }
    IN  SubSeq(result.text, result.calls[i].at + 1,
               IF later = {} THEN Len(result.text)
               ELSE result.calls[CHOOSE j \in later : \A k \in later : j <= k].at)

\* what writeErrorListItem writes for a node on its own, into an empty builder
NodeAlone(node, level, partOfSiblingList) ==
    writeErrorListItem(NewBuilder, node, level, partOfSiblingList, 0).out

\* every line of a rendered node (the text behind each line break) with two
\* more spaces in front
ShiftedByOne(text) ==
    LET lines == Lines(text)
    IN  JoinFrom([k \in DOMAIN lines |-> IF k = 1 THEN lines[k]
                                         ELSE <<" ", " ">> \o lines[k]],
                 <<"\n">>, 1)

\* C24: what is written for a node is decided by the node, its level and its
\* partOfList flag alone: it is what writeErrorListItem writes for them into an
\* empty builder, whatever stands above the node or in front of it; and at the
\* next level the same lines are written, each behind two more spaces
C24_IndentationIsLocal ==
    Returned =>
        \A i \in DOMAIN result.calls :
           LET c == result.calls[i] IN
              /\ NodeText(i) = NodeAlone(c.err, c.indent, c.partOfList)
              /\ NodeAlone(c.err, c.indent + 1, c.partOfList)
                    = ShiftedByOne(NodeAlone(c.err, c.indent, c.partOfList))

\* a wrap with a label of several lines was rendered behind an earlier cause of
\* the same list
C24_Witness ==
    /\ Returned
    /\ \E i \in DOMAIN result.calls :
          /\ HasWrappingMessage(result.calls[i].err)
          /\ Len(result.calls[i].err.wrapped) >= 1
          /\ HasLineBreak(result.calls[i].err.message)
          /\ result.calls[i].partOfList
          /\ \E j \in 1..(i - 1) : result.calls[j].caller = result.calls[i].caller

(***************************************************************************)
(* C25                                                                     *)
(***************************************************************************)
\* the variables the causes of variable i refer to
CausesAt(i) == { stack[i].wrapped[k] : k \in DOMAIN stack[i].wrapped }

RECURSIVE FollowCauses(_, _)
\* what is reached from the variables `from` along at most n more causes
FollowCauses(from, n) ==
    IF n = 0 THEN from
    ELSE FollowCauses(from \cup UNION { CausesAt(i) : i \in from }, n - 1)

\* every variable below variable i in the cause graph
BelowInGraph(i) == FollowCauses(CausesAt(i), Len(stack))

\* the cause graph of the value Error() is called on has a cycle
CyclicGraph ==
    \E i \in {Len(stack)} \cup BelowInGraph(Len(stack)) : i \in BelowInGraph(i)

RECURSIVE UnfoldedSize(_)
RECURSIVE UnfoldedSizes(_, _)
\* the number of nodes of the tree unfolded from variable i: a cause counts
\* once for every path to it
UnfoldedSize(i) == 1 + UnfoldedSizes(stack[i].wrapped, 1)
UnfoldedSizes(ids, k) ==
    IF k > Len(ids) THEN 0 ELSE UnfoldedSize(ids[k]) + UnfoldedSizes(ids, k + 1)

\* the goroutine is inside Error(), or was
InsideError == procs # <<>>
ErrorReturned == procs # <<>> /\ procs[1].at = "returned"
StackOverflowed == procs # <<>> /\ procs[1].at = "overflow"

\* C25: a goroutine that enters Error() comes to an end: on an acyclic cause
\* graph Error() returns, after one writeErrorListItem call for every node
\* below the root of the tree unfolded from it and never more calls than that;
\* on a cyclic cause graph of library wrappers it never returns: the recursion
\* goes on until the goroutine's stack is used up
C25_TerminatesUnlessCyclic ==
    /\ [](InsideError =>
             IF CyclicGraph
             THEN ~ErrorReturned
             ELSE /\ ~StackOverflowed
                  /\ procs[1].steps <= UnfoldedSize(Len(stack)) - 1
                  /\ (ErrorReturned => procs[1].steps = UnfoldedSize(Len(stack)) - 1))
    /\ InsideError ~> (ErrorReturned \/ StackOverflowed)

\* the recursion used up the stack on a graph whose cycle does not pass through
\* the value Error() was called on
C25_Witness ==
    /\ StackOverflowed
    /\ CyclicGraph
    /\ Len(stack) \notin BelowInGraph(Len(stack))

(***************************************************************************)
(* C26                                                                     *)
(***************************************************************************)
RECURSIVE SinglesAsError(_)
\* the tree with wrap.Error(e, msg) in the place of every wrap.Errors([e], msg)
SinglesAsError(err) ==
    LET causes == [k \in DOMAIN err.wrapped |-> SinglesAsError(err.wrapped[k])]
    IN  IF err.kind = "wrappedErrors" /\ Len(err.wrapped) = 1
        THEN Error(causes[1], err.message)
        ELSE [err EXCEPT !.wrapped = causes]

RECURSIVE SinglesAsErrors(_)
\* the tree with wrap.Errors([e], msg) in the place of every wrap.Error(e, msg)
SinglesAsErrors(err) ==
    LET causes == [k \in DOMAIN err.wrapped |-> SinglesAsErrors(err.wrapped[k])]
    IN  IF err.kind = "wrappedError"
        THEN Errors(causes, err.message)
        ELSE [err EXCEPT !.wrapped = causes]

\* C26: Error() returns the same text for a tree, for the tree with every
\* Errors([e], msg) written as Error(e, msg), and for the tree with every
\* Error(e, msg) written as Errors([e], msg); so two trees that differ in
\* such wraps only, at the root or anywhere below it, have the same text
C26_SingleWrapsInterchangeable ==
    Returned =>
        /\ result.text = ErrorString(SinglesAsError(target))
        /\ result.text = ErrorString(SinglesAsErrors(target))

\* the tree holds an Errors wrap of one cause inside a list of several causes
C26_Witness ==
    /\ Returned
    /\ \E i \in DOMAIN result.calls :
          /\ result.calls[i].err.kind = "wrappedErrors"
          /\ Len(result.calls[i].err.wrapped) = 1
          /\ result.calls[i].partOfList

(***************************************************************************)
(* C27                                                                     *)
(***************************************************************************)
RECURSIVE PreOrder(_)
RECURSIVE PreOrderAll(_, _)
\* the nodes of a tree, a node before the nodes below it and the whole tree of
\* a cause before the next cause
PreOrder(err) == <<err>> \o PreOrderAll(err.wrapped, 1)
PreOrderAll(errs, k) ==
    IF k > Len(errs) THEN <<>> ELSE PreOrder(errs[k]) \o PreOrderAll(errs, k + 1)

\* every label of the tree is one line
RECURSIVE SingleLineLabels(_)
SingleLineLabels(err) ==
    /\ ~HasLineBreak(err.message)
    /\ \A k \in DOMAIN err.wrapped : SingleLineLabels(err.wrapped[k])

\* C27: the list items are the nodes below the root in depth-first pre-order,
\* one item for every node of the tree: the invocations of writeErrorListItem
\* are made for exactly these nodes in this order, each starts with its bullet
\* behind the text of the one before, and each was made by the invocation for
\* its parent; when every label is one line the text has one line for the root
\* and one for every other node
C27_ItemsInPreOrder ==
    Returned =>
        LET nodes == PreOrderAll(target.wrapped, 1) IN
        /\ Len(result.calls) = Len(nodes)
        /\ \A i \in DOMAIN result.calls :
              /\ result.calls[i].err = nodes[i]
              /\ BulletAt(i)
              /\ i > 1 => result.calls[i].at > result.calls[i - 1].at
              /\ result.calls[i].caller < i
              /\ result.calls[i].caller > 0 =>
                    \E k \in DOMAIN result.calls[result.calls[i].caller].err.wrapped :
                       result.calls[result.calls[i].caller].err.wrapped[k] = nodes[i]
        /\ SingleLineLabels(target) => Len(Lines(result.text)) = 1 + Len(nodes)

\* a tree of single-line labels whose first cause has a cause of its own and is
\* followed by another cause
C27_Witness ==
    /\ Returned
    /\ SingleLineLabels(target)
    /\ Len(target.wrapped) >= 2
    /\ Len(target.wrapped[1].wrapped) >= 1
    /\ result.calls[2].caller = 1
    /\ result.calls[Len(result.calls)].caller = 0

(***************************************************************************)
(* C28                                                                     *)
(***************************************************************************)
\* C28: every list item is at level 1 or deeper and its bullet stands at that
\* level; the causes of the root are at level 1; a cause is at the level of
\* the item of its parent or exactly one level deeper, never higher up; and
\* all causes of one wrap are at the same level
C28_LevelsStepByOne ==
    Returned =>
        \A i \in DOMAIN result.calls :
           LET c == result.calls[i] IN
              /\ c.indent >= 1
              /\ BulletAt(i)
              /\ c.caller = 0 => c.indent = 1
              /\ c.caller > 0 =>
                    c.indent \in { result.calls[c.caller].indent,
                                   result.calls[c.caller].indent + 1 }
              /\ \A j \in DOMAIN result.calls :
                    result.calls[j].caller = c.caller =>
                       result.calls[j].indent = c.indent

\* two causes of one wrap below the root were rendered, one level deeper than
\* the item of the wrap
C28_Witness ==
    /\ Returned
    /\ \E i, j \in DOMAIN result.calls :
          /\ i # j
          /\ result.calls[i].caller > 0
          /\ result.calls[j].caller = result.calls[i].caller
          /\ result.calls[i].indent = result.calls[result.calls[i].caller].indent + 1

(***************************************************************************)
(* C29                                                                     *)
(***************************************************************************)
\* the two separators of the heuristic
LabelSeparators == { <<":", " ">>, <<":", "\n">> }

\* C29: when unwrapError reports a wrapping message for a wrapper of another
\* library, the label has at least one character, and the label, then ": " or
\* ":\n", then the whole text of the cause it returns, is the wrapper's
\* whole text; a text that is ": " or ":\n" and then the cause's text is not
\* split
C29_SplitIsLossless ==
    pc = "called" =>
        /\ result.errMessageIsWrappingMessage =>
              /\ Len(result.errMessage) >= 1
              /\ result.unwrapped # Nil
              /\ \E sep \in LabelSeparators :
                    result.errMessage \o sep \o ErrorString(result.unwrapped)
                       = target.message
        /\ (/\ Unwrap(target) # Nil
            /\ \E sep \in LabelSeparators :
                  target.message = sep \o ErrorString(Unwrap(target)))
           => /\ ~result.errMessageIsWrappingMessage
              /\ result.errMessage = target.message

\* a text was split at its last ": ", the label holding a ": " itself
C29_Witness ==
    /\ pc = "called"
    /\ result.errMessageIsWrappingMessage
    /\ result.errMessage = <<":", " ">>
    /\ target.message = <<":", " ", ":", " ">> \o result.unwrapped.message

(***************************************************************************)
(* C30                                                                     *)
(***************************************************************************)
\* the indexes unwrapError read in the wrapper's text during the call of this
\* state
ReadsOfCall ==
    IF Unwrap(target) = Nil THEN {}
    ELSE indexesRead(target.message, ErrorString(Unwrap(target)),
                     wrappingMessageEndIndex(target.message,
                                             ErrorString(Unwrap(target))))

\* C30: every index at which unwrapError reads the wrapper's text is one of
\* its characters (0 <= index < len), and when it slices the text, the slice
\* errMessage[0:wrappingMessageEndIndex] ends inside the text
\* (0 <= wrappingMessageEndIndex <= len); this for every text and every cause
\* text, a cause text that is empty or longer than the text and a text of 0,
\* 1 or 2 characters included
C30_IndexesInsideText ==
    pc = "called" =>
        /\ \A index \in ReadsOfCall : 0 <= index /\ index < Len(target.message)
        /\ result.errMessageIsWrappingMessage =>
              /\ ReadsOfCall # {}
              /\ Len(result.errMessage) >= 0
              /\ Len(result.errMessage) <= Len(target.message)
              /\ Len(result.errMessage)
                    = wrappingMessageEndIndex(target.message,
                                              ErrorString(Unwrap(target)))

\* the call read the last character of the text: the cause's text is empty
C30_Witness ==
    /\ pc = "called"
    /\ Unwrap(target) = errorsNew(<<>>)
    /\ Len(target.message) - 1 \in ReadsOfCall

====
